---------------------------- MODULE Spec2Model ----------------------------
(***************************************************************************)
(* A model of the GymViz data engine (amigo163/gym_monitoring):            *)
(*   - data/parser.py      parse_strong_csv (the Volume column)            *)
(*   - data/processor.py   preprocess_data, calculate_1rm,                 *)
(*                         identify_personal_records, identify_plateaus    *)
(*   - config/mappings.py  map_exercise_to_muscle_group                    *)
(*                                                                         *)
(* Numbers.  Weights, reps and volumes are integers.  An estimated 1RM is  *)
(* an exact rational, a pair <<n, d>> in lowest terms with d >= 1.  Python *)
(* computes the same quantities in binary floating point; the model is     *)
(* exact arithmetic.                                                       *)
(*                                                                         *)
(* Strings.  Exercise names handed to the classifier are sequences of      *)
(* one-character strings, so that lower(), `in` and re.search are          *)
(* computed and not assumed.                                               *)
(***************************************************************************)
EXTENDS Integers, Sequences, FiniteSets, TLC

VARIABLES
    (* -- preprocess_data / identify_personal_records ------------------- *)
    columns,        \* the column names of the DataFrame
    df,             \* the rows of the DataFrame; the label of a row is its position
    pc,             \* where the pipeline stands
    sorted_idx,     \* exercise name -> labels of its rows as sort_values('Date') orders them
    groups,         \* the exercise groups groupby has still to yield
    exercise_name_, \* the group being scanned ("" between groups)
    exercise_df,    \* labels of the current group still to be scanned
    max_weight, max_reps, max_volume, max_1rm,
    weight_pr_indices, reps_pr_indices, volume_pr_indices, orm_pr_indices,
    first_flags,    \* the five PR flags of every row after the first application
    (* -- calculate_1rm -------------------------------------------------- *)
    calls,                      \* how many results are held: 0, 1 or 2
    weight, reps, one_rm,       \* the last call and its result
    prev_reps, prev_one_rm,     \* the call before it, at the same weight
    (* -- map_exercise_to_muscle_group ----------------------------------- *)
    exercise_name,              \* the argument
    classified,                 \* how many results are held: 0, 1 or 2
    muscle_group,               \* the last result
    prev_muscle_group,          \* the result of the call before it, same argument
    (* -- identify_plateaus ---------------------------------------------- *)
    window,                     \* the argument `window`
    history,                    \* the rows of the exercise: per date, the weights of its sets
    grouped,                    \* per date, the maximum weight
    ppc,                        \* where identify_plateaus stands
    loop_i,                     \* the loop index i (0-based, as in the source)
    plateaus, plateau_start, current_weight, same_weight_count,
    (* -- first-to-last percent changes ------------------------------------- *)
    change_fn,    \* the function computing the changes
    progression,    \* the per-date or per-period rows; the first and the last are read
    changes,    \* column -> percent change, once computed
    change_pc,    \* where the computation stands
    (* -- find_most_improved_exercises -------------------------------------- *)
    rank_df,    \* the rows of the DataFrame
    top_n,    \* the argument top_n
    min_occurrences,    \* the argument min_occurrences
    frequent_exercises,    \* the frequent exercises still to be looked at
    improvements,    \* the list of improvements built so far
    ranked,    \* the list returned
    rank_pc,    \* where find_most_improved_exercises stands
    (* -- calculate_workout_balance ----------------------------------------- *)
    balance_df,    \* muscle group -> the Volume of each of its rows in the DataFrame
    muscle_volume,    \* groupby('Muscle Group')['Volume'].sum()
    muscle_percentage,    \* the dict muscle_percentage
    push_muscles,
    pull_muscles,
    push_pull_ratio,
    upper_lower_ratio,
    core_ratio,
    recommendations,    \* the list of recommendations
    is_balanced,
    bal_pc,    \* where calculate_workout_balance stands
    (* -- old_monolith/records_registry.py: RecordsRegistry ----------------- *)
    reg_file,    \* the persisted file: missing, not JSON, or the document it holds
    records,    \* self.records
    exercise_keys,    \* the keys of records['exercises'] in insertion order
    muscle_keys,    \* the keys of records['muscle_groups'] in insertion order
    reg_df,    \* the caller's DataFrame, as the last call left it
    given_df,    \* the caller's DataFrame, as it was handed to the last call
    applied,    \* the datasets handed to update_from_dataframe so far
    updates,    \* the number of update_from_dataframe calls so far
    timeline_args,    \* the arguments of the last create_records_timeline call
    timeline,    \* the list it returned
    reg_pc,    \* where the registry stands
    (* -- data/parser.py: parse_strong_csv ---------------------------------- *)
    csv_file,    \* the file as read_csv reads it: its header and its cells
    parsed,    \* what parse_strong_csv gave: a DataFrame, or the ValueError it raised
    csv_pc,
    (* -- data/processor.py: preprocess_data, filter_data_by_criteria ------- *)
    wk_df,    \* the DataFrame: parsed, then preprocessed
    workout_types,    \* segment_workouts_by_type(df): key -> workout type
    type_filter,    \* filters['workout_types']
    filtered_df,    \* what filter_data_by_criteria returned
    wk_pc,
    (* -- muscle_group_utils.py: analyze_workout_patterns; pages/workout_patterns.py -- *)
    streak_dates,    \* df['Date'].dt.date.unique()
    longest_streak,    \* function answering -> its longest_streak
    streak_pc,
    (* -- analysis/progress.py: _calculate_exercise_improvements ------------ *)
    imp_df,    \* the DataFrame: its columns and the rows of one exercise
    exercise_improvements,    \* the list returned
    imp_pc,
    (* -- analysis/exercise.py: detect_plateaus ----------------------------- *)
    detected,    \* the list detect_plateaus returned
    detect_pc,
    (* -- the 1RM formulas beside data/processor.py ------------------------- *)
    inline_1rm    \* per formula, the outcome of its call on weight and reps

pipeVars == <<columns, df, pc, sorted_idx, groups, exercise_name_, exercise_df,
              max_weight, max_reps, max_volume, max_1rm,
              weight_pr_indices, reps_pr_indices, volume_pr_indices, orm_pr_indices,
              first_flags>>
ormVars == <<calls, weight, reps, one_rm, prev_reps, prev_one_rm>>
clsVars == <<exercise_name, classified, muscle_group, prev_muscle_group>>
platVars == <<window, history, grouped, ppc, loop_i,
              plateaus, plateau_start, current_weight, same_weight_count>>
pctVars == <<change_fn, progression, changes, change_pc>>
rankVars == <<rank_df, top_n, min_occurrences, frequent_exercises, improvements, ranked, rank_pc>>
balVars == <<balance_df, muscle_volume, muscle_percentage, push_muscles, pull_muscles, push_pull_ratio, upper_lower_ratio, core_ratio, recommendations, is_balanced, bal_pc>>
regVars == <<reg_file, records, exercise_keys, muscle_keys, reg_df, given_df, applied, updates, timeline_args, timeline, reg_pc>>
csvVars == <<csv_file, parsed, csv_pc>>
wkVars == <<wk_df, workout_types, type_filter, filtered_df, wk_pc>>
streakVars == <<streak_dates, longest_streak, streak_pc>>
impVars == <<imp_df, exercise_improvements, imp_pc>>
detVars == <<detected, detect_pc>>
inlVars == <<inline_1rm>>
vars == <<pipeVars, ormVars, clsVars, platVars, pctVars, rankVars, balVars, regVars, csvVars, wkVars, streakVars, impVars, detVars, inlVars>>

\* What the functions of one part of the program leave alone.
besidesPipe == <<ormVars, clsVars, platVars, pctVars, rankVars, balVars, regVars, csvVars, wkVars, streakVars, impVars, detVars, inlVars>>
besidesOrm == <<pipeVars, clsVars, platVars, pctVars, rankVars, balVars, regVars, csvVars, wkVars, streakVars, impVars, detVars, inlVars>>
besidesCls == <<pipeVars, ormVars, platVars, pctVars, rankVars, balVars, regVars, csvVars, wkVars, streakVars, impVars, detVars, inlVars>>
besidesPlat == <<pipeVars, ormVars, clsVars, pctVars, rankVars, balVars, regVars, csvVars, wkVars, streakVars, impVars, detVars, inlVars>>
besidesPct == <<pipeVars, ormVars, clsVars, platVars, rankVars, balVars, regVars, csvVars, wkVars, streakVars, impVars, detVars, inlVars>>
besidesRank == <<pipeVars, ormVars, clsVars, platVars, pctVars, balVars, regVars, csvVars, wkVars, streakVars, impVars, detVars, inlVars>>
besidesBal == <<pipeVars, ormVars, clsVars, platVars, pctVars, rankVars, regVars, csvVars, wkVars, streakVars, impVars, detVars, inlVars>>
besidesReg == <<pipeVars, ormVars, clsVars, platVars, pctVars, rankVars, balVars, csvVars, wkVars, streakVars, impVars, detVars, inlVars>>
besidesCsv == <<pipeVars, ormVars, clsVars, platVars, pctVars, rankVars, balVars, regVars, wkVars, streakVars, impVars, detVars, inlVars>>
besidesWk == <<pipeVars, ormVars, clsVars, platVars, pctVars, rankVars, balVars, regVars, csvVars, streakVars, impVars, detVars, inlVars>>
besidesStreak == <<pipeVars, ormVars, clsVars, platVars, pctVars, rankVars, balVars, regVars, csvVars, wkVars, impVars, detVars, inlVars>>
besidesImp == <<pipeVars, ormVars, clsVars, platVars, pctVars, rankVars, balVars, regVars, csvVars, wkVars, streakVars, detVars, inlVars>>
besidesDet == <<pipeVars, ormVars, clsVars, platVars, pctVars, rankVars, balVars, regVars, csvVars, wkVars, streakVars, impVars, inlVars>>
besidesInl == <<pipeVars, ormVars, clsVars, platVars, pctVars, rankVars, balVars, regVars, csvVars, wkVars, streakVars, impVars, detVars>>

-----------------------------------------------------------------------------
(* Exact rational arithmetic                                               *)

RECURSIVE GCD(_, _)
GCD(a, b) == IF b = 0 THEN a ELSE GCD(b, a % b)

Abs(x) == IF x < 0 THEN -x ELSE x

\* n / d (d > 0) in lowest terms.
Rat(n, d) ==
    LET g == GCD(Abs(n), d)
    IN  <<n \div g, d \div g>>

\* An integer as a rational.
Q(n) == <<n, 1>>

Numer(x) == x[1]
Denom(x) == x[2]

GT(a, b) == Numer(a) * Denom(b) > Numer(b) * Denom(a)
GE(a, b) == Numer(a) * Denom(b) >= Numer(b) * Denom(a)
EQ(a, b) == Numer(a) * Denom(b) = Numer(b) * Denom(a)

-----------------------------------------------------------------------------
(* data/processor.py: calculate_1rm                                        *)

BrzyckiLimit == 36

\* A plausible slip: the comment's "valid for reps <= 10" taken as the threshold.
calculate_1rm_ten(w, r) ==
    IF r <= 0 \/ w <= 0 THEN Q(0)
    ELSE IF r > 10 THEN Rat(w * 11, 10)
    ELSE Rat(w * 36, 37 - r)

\* A plausible slip: the domain guard answering 0 on both sides of the formula's domain.
calculate_1rm_zero_high(w, r) ==
    IF r <= 0 \/ w <= 0 \/ r > 36 THEN Q(0)
    ELSE Rat(w * 36, 37 - r)

\* A plausible slip: the guard against zero and negative input left out.
calculate_1rm_unguarded(w, r) ==
    IF r > BrzyckiLimit THEN Rat(w * 11, 10)
    ELSE Rat(w * 36, 37 - r)

calculate_1rm(w, r) ==
    IF r <= 0 \/ w <= 0 THEN Q(0)
    ELSE IF r > BrzyckiLimit THEN Rat(w * 11, 10)     \* weight * 1.1
    ELSE Rat(w * 36, 37 - r)                          \* weight * (36 / (37 - reps))

-----------------------------------------------------------------------------
(* config/mappings.py: the curated dictionary and the pattern table        *)

\* A Python str as the sequence of its characters.  EXERCISE_MUSCLE_MAP as the
\* interpreter holds it: the keys in the order of their first occurrence in the
\* literal, each with the value of its last occurrence (eight keys occur twice).
EXERCISE_MUSCLE_MAP == <<
    <<<<"B", "e", "n", "c", "h", " ", "P", "r", "e", "s", "s">>, "Chest">>,
    <<<<"I", "n", "c", "l", "i", "n", "e", " ", "B", "e", "n", "c", "h", " ", "P", "r", "e", "s", "s">>, "Chest">>,
    <<<<"D", "e", "c", "l", "i", "n", "e", " ", "B", "e", "n", "c", "h", " ", "P", "r", "e", "s", "s">>, "Chest">>,
    <<<<"D", "u", "m", "b", "b", "e", "l", "l", " ", "B", "e", "n", "c", "h", " ", "P", "r", "e", "s", "s">>, "Chest">>,
    <<<<"I", "n", "c", "l", "i", "n", "e", " ", "D", "u", "m", "b", "b", "e", "l", "l", " ", "P", "r", "e", "s", "s">>, "Chest">>,
    <<<<"D", "e", "c", "l", "i", "n", "e", " ", "D", "u", "m", "b", "b", "e", "l", "l", " ", "P", "r", "e", "s", "s">>, "Chest">>,
    <<<<"D", "u", "m", "b", "b", "e", "l", "l", " ", "F", "l", "y">>, "Chest">>,
    <<<<"I", "n", "c", "l", "i", "n", "e", " ", "D", "u", "m", "b", "b", "e", "l", "l", " ", "F", "l", "y">>, "Chest">>,
    <<<<"D", "e", "c", "l", "i", "n", "e", " ", "D", "u", "m", "b", "b", "e", "l", "l", " ", "F", "l", "y">>, "Chest">>,
    <<<<"C", "a", "b", "l", "e", " ", "F", "l", "y">>, "Chest">>,
    <<<<"H", "i", "g", "h", " ", "C", "a", "b", "l", "e", " ", "F", "l", "y">>, "Chest">>,
    <<<<"L", "o", "w", " ", "C", "a", "b", "l", "e", " ", "F", "l", "y">>, "Chest">>,
    <<<<"C", "h", "e", "s", "t", " ", "P", "r", "e", "s", "s", " ", "M", "a", "c", "h", "i", "n", "e">>, "Chest">>,
    <<<<"P", "e", "c", " ", "D", "e", "c", "k">>, "Chest">>,
    <<<<"P", "u", "s", "h", " ", "U", "p">>, "Chest">>,
    <<<<"I", "n", "c", "l", "i", "n", "e", " ", "P", "u", "s", "h", " ", "U", "p">>, "Chest">>,
    <<<<"D", "e", "c", "l", "i", "n", "e", " ", "P", "u", "s", "h", " ", "U", "p">>, "Chest">>,
    <<<<"C", "h", "e", "s", "t", " ", "D", "i", "p">>, "Chest">>,
    <<<<"S", "v", "e", "n", "d", " ", "P", "r", "e", "s", "s">>, "Chest">>,
    <<<<"L", "a", "n", "d", "m", "i", "n", "e", " ", "P", "r", "e", "s", "s">>, "Shoulders">>,
    <<<<"F", "l", "o", "o", "r", " ", "P", "r", "e", "s", "s">>, "Chest">>,
    <<<<"M", "a", "c", "h", "i", "n", "e", " ", "F", "l", "y">>, "Chest">>,
    <<<<"S", "m", "i", "t", "h", " ", "M", "a", "c", "h", "i", "n", "e", " ", "B", "e", "n", "c", "h", " ", "P", "r", "e", "s", "s">>, "Chest">>,
    <<<<"W", "e", "i", "g", "h", "t", "e", "d", " ", "P", "u", "s", "h", " ", "U", "p">>, "Chest">>,
    <<<<"C", "a", "b", "l", "e", " ", "C", "r", "o", "s", "s", "o", "v", "e", "r">>, "Chest">>,
    <<<<"C", "a", "b", "l", "e", " ", "I", "r", "o", "n", " ", "C", "r", "o", "s", "s">>, "Chest">>,
    <<<<"P", "l", "a", "t", "e", " ", "P", "r", "e", "s", "s">>, "Chest">>,
    <<<<"G", "u", "i", "l", "l", "o", "t", "i", "n", "e", " ", "P", "r", "e", "s", "s">>, "Chest">>,
    <<<<"H", "e", "x", " ", "P", "r", "e", "s", "s">>, "Chest">>,
    <<<<"O", "n", "e", " ", "A", "r", "m", " ", "P", "u", "s", "h", " ", "U", "p">>, "Chest">>,
    <<<<"D", "e", "f", "i", "c", "i", "t", " ", "P", "u", "s", "h", " ", "U", "p">>, "Chest">>,
    <<<<"A", "r", "c", "h", "e", "r", " ", "P", "u", "s", "h", " ", "U", "p">>, "Chest">>,
    <<<<"C", "l", "o", "s", "e", "-", "G", "r", "i", "p", " ", "B", "e", "n", "c", "h", " ", "P", "r", "e", "s", "s">>, "Chest">>,
    <<<<"W", "i", "d", "e", "-", "G", "r", "i", "p", " ", "B", "e", "n", "c", "h", " ", "P", "r", "e", "s", "s">>, "Chest">>,
    <<<<"R", "e", "v", "e", "r", "s", "e", "-", "G", "r", "i", "p", " ", "B", "e", "n", "c", "h", " ", "P", "r", "e", "s", "s">>, "Chest">>,
    <<<<"D", "e", "a", "d", "l", "i", "f", "t">>, "Back">>,
    <<<<"B", "a", "r", "b", "e", "l", "l", " ", "R", "o", "w">>, "Back">>,
    <<<<"D", "u", "m", "b", "b", "e", "l", "l", " ", "R", "o", "w">>, "Back">>,
    <<<<"P", "e", "n", "d", "l", "a", "y", " ", "R", "o", "w">>, "Back">>,
    <<<<"T", "-", "B", "a", "r", " ", "R", "o", "w">>, "Back">>,
    <<<<"S", "e", "a", "t", "e", "d", " ", "C", "a", "b", "l", "e", " ", "R", "o", "w">>, "Back">>,
    <<<<"M", "a", "c", "h", "i", "n", "e", " ", "R", "o", "w">>, "Back">>,
    <<<<"P", "u", "l", "l", " ", "U", "p">>, "Back">>,
    <<<<"C", "h", "i", "n", " ", "U", "p">>, "Arms">>,
    <<<<"N", "e", "u", "t", "r", "a", "l", " ", "G", "r", "i", "p", " ", "P", "u", "l", "l", " ", "U", "p">>, "Back">>,
    <<<<"L", "a", "t", " ", "P", "u", "l", "l", "d", "o", "w", "n">>, "Back">>,
    <<<<"C", "l", "o", "s", "e", " ", "G", "r", "i", "p", " ", "L", "a", "t", " ", "P", "u", "l", "l", "d", "o", "w", "n">>, "Back">>,
    <<<<"W", "i", "d", "e", " ", "G", "r", "i", "p", " ", "L", "a", "t", " ", "P", "u", "l", "l", "d", "o", "w", "n">>, "Back">>,
    <<<<"V", "-", "B", "a", "r", " ", "P", "u", "l", "l", "d", "o", "w", "n">>, "Back">>,
    <<<<"S", "t", "r", "a", "i", "g", "h", "t", " ", "A", "r", "m", " ", "P", "u", "l", "l", "d", "o", "w", "n">>, "Back">>,
    <<<<"F", "a", "c", "e", " ", "P", "u", "l", "l">>, "Back">>,
    <<<<"M", "e", "a", "d", "o", "w", "s", " ", "R", "o", "w">>, "Back">>,
    <<<<"C", "h", "e", "s", "t", " ", "S", "u", "p", "p", "o", "r", "t", "e", "d", " ", "R", "o", "w">>, "Back">>,
    <<<<"C", "h", "e", "s", "t", " ", "S", "u", "p", "p", "o", "r", "t", "e", "d", " ", "D", "u", "m", "b", "b", "e", "l", "l", " ", "R", "o", "w">>, "Back">>,
    <<<<"B", "e", "n", "t", " ", "O", "v", "e", "r", " ", "R", "o", "w">>, "Back">>,
    <<<<"I", "n", "v", "e", "r", "t", "e", "d", " ", "R", "o", "w">>, "Back">>,
    <<<<"S", "e", "a", "l", " ", "R", "o", "w">>, "Back">>,
    <<<<"C", "a", "b", "l", "e", " ", "R", "o", "w">>, "Back">>,
    <<<<"B", "a", "c", "k", " ", "E", "x", "t", "e", "n", "s", "i", "o", "n">>, "Back">>,
    <<<<"G", "o", "o", "d", " ", "M", "o", "r", "n", "i", "n", "g">>, "Back">>,
    <<<<"R", "a", "c", "k", " ", "P", "u", "l", "l">>, "Back">>,
    <<<<"B", "l", "o", "c", "k", " ", "P", "u", "l", "l">>, "Back">>,
    <<<<"D", "e", "f", "i", "c", "i", "t", " ", "D", "e", "a", "d", "l", "i", "f", "t">>, "Back">>,
    <<<<"R", "o", "m", "a", "n", "i", "a", "n", " ", "D", "e", "a", "d", "l", "i", "f", "t">>, "Back">>,
    <<<<"S", "t", "i", "f", "f", " ", "L", "e", "g", " ", "D", "e", "a", "d", "l", "i", "f", "t">>, "Back">>,
    <<<<"S", "n", "a", "t", "c", "h", " ", "G", "r", "i", "p", " ", "D", "e", "a", "d", "l", "i", "f", "t">>, "Back">>,
    <<<<"S", "u", "m", "o", " ", "D", "e", "a", "d", "l", "i", "f", "t">>, "Back">>,
    <<<<"T", "r", "a", "p", " ", "B", "a", "r", " ", "D", "e", "a", "d", "l", "i", "f", "t">>, "Back">>,
    <<<<"L", "a", "n", "d", "m", "i", "n", "e", " ", "R", "o", "w">>, "Back">>,
    <<<<"B", "a", "n", "d", " ", "P", "u", "l", "l", " ", "A", "p", "a", "r", "t">>, "Back">>,
    <<<<"R", "e", "v", "e", "r", "s", "e", " ", "F", "l", "y">>, "Back">>,
    <<<<"B", "e", "n", "t", " ", "O", "v", "e", "r", " ", "R", "e", "a", "r", " ", "D", "e", "l", "t", " ", "R", "a", "i", "s", "e">>, "Back">>,
    <<<<"D", "u", "m", "b", "b", "e", "l", "l", " ", "P", "u", "l", "l", "o", "v", "e", "r">>, "Back">>,
    <<<<"C", "a", "b", "l", "e", " ", "P", "u", "l", "l", "o", "v", "e", "r">>, "Back">>,
    <<<<"R", "e", "n", "e", "g", "a", "d", "e", " ", "R", "o", "w">>, "Back">>,
    <<<<"S", "e", "a", "t", "e", "d", " ", "R", "o", "w">>, "Back">>,
    <<<<"K", "r", "o", "c", " ", "R", "o", "w">>, "Back">>,
    <<<<"A", "u", "s", "t", "r", "a", "l", "i", "a", "n", " ", "P", "u", "l", "l", " ", "U", "p">>, "Back">>,
    <<<<"O", "n", "e", " ", "A", "r", "m", " ", "R", "o", "w">>, "Back">>,
    <<<<"A", "s", "s", "i", "s", "t", "e", "d", " ", "P", "u", "l", "l", " ", "U", "p">>, "Back">>,
    <<<<"S", "u", "p", "e", "r", "m", "a", "n">>, "Back">>,
    <<<<"H", "y", "p", "e", "r", "e", "x", "t", "e", "n", "s", "i", "o", "n">>, "Back">>,
    <<<<"R", "e", "v", "e", "r", "s", "e", " ", "H", "y", "p", "e", "r", "e", "x", "t", "e", "n", "s", "i", "o", "n">>, "Legs">>,
    <<<<"S", "h", "r", "u", "g">>, "Back">>,
    <<<<"B", "a", "r", "b", "e", "l", "l", " ", "S", "h", "r", "u", "g">>, "Back">>,
    <<<<"D", "u", "m", "b", "b", "e", "l", "l", " ", "S", "h", "r", "u", "g">>, "Back">>,
    <<<<"C", "a", "b", "l", "e", " ", "S", "h", "r", "u", "g">>, "Back">>,
    <<<<"M", "a", "c", "h", "i", "n", "e", " ", "S", "h", "r", "u", "g">>, "Back">>,
    <<<<"O", "v", "e", "r", "h", "e", "a", "d", " ", "P", "r", "e", "s", "s">>, "Shoulders">>,
    <<<<"M", "i", "l", "i", "t", "a", "r", "y", " ", "P", "r", "e", "s", "s">>, "Shoulders">>,
    <<<<"S", "e", "a", "t", "e", "d", " ", "O", "v", "e", "r", "h", "e", "a", "d", " ", "P", "r", "e", "s", "s">>, "Shoulders">>,
    <<<<"S", "t", "a", "n", "d", "i", "n", "g", " ", "O", "v", "e", "r", "h", "e", "a", "d", " ", "P", "r", "e", "s", "s">>, "Shoulders">>,
    <<<<"D", "u", "m", "b", "b", "e", "l", "l", " ", "S", "h", "o", "u", "l", "d", "e", "r", " ", "P", "r", "e", "s", "s">>, "Shoulders">>,
    <<<<"A", "r", "n", "o", "l", "d", " ", "P", "r", "e", "s", "s">>, "Shoulders">>,
    <<<<"P", "u", "s", "h", " ", "P", "r", "e", "s", "s">>, "Olympic">>,
    <<<<"M", "a", "c", "h", "i", "n", "e", " ", "S", "h", "o", "u", "l", "d", "e", "r", " ", "P", "r", "e", "s", "s">>, "Shoulders">>,
    <<<<"L", "a", "t", "e", "r", "a", "l", " ", "R", "a", "i", "s", "e">>, "Shoulders">>,
    <<<<"C", "a", "b", "l", "e", " ", "L", "a", "t", "e", "r", "a", "l", " ", "R", "a", "i", "s", "e">>, "Shoulders">>,
    <<<<"F", "r", "o", "n", "t", " ", "R", "a", "i", "s", "e">>, "Shoulders">>,
    <<<<"C", "a", "b", "l", "e", " ", "F", "r", "o", "n", "t", " ", "R", "a", "i", "s", "e">>, "Shoulders">>,
    <<<<"U", "p", "r", "i", "g", "h", "t", " ", "R", "o", "w">>, "Shoulders">>,
    <<<<"C", "a", "b", "l", "e", " ", "U", "p", "r", "i", "g", "h", "t", " ", "R", "o", "w">>, "Shoulders">>,
    <<<<"B", "e", "n", "t", " ", "O", "v", "e", "r", " ", "L", "a", "t", "e", "r", "a", "l", " ", "R", "a", "i", "s", "e">>, "Shoulders">>,
    <<<<"C", "a", "b", "l", "e", " ", "R", "e", "v", "e", "r", "s", "e", " ", "F", "l", "y">>, "Shoulders">>,
    <<<<"R", "e", "a", "r", " ", "D", "e", "l", "t", " ", "M", "a", "c", "h", "i", "n", "e">>, "Shoulders">>,
    <<<<"R", "e", "v", "e", "r", "s", "e", " ", "P", "e", "c", " ", "D", "e", "c", "k">>, "Shoulders">>,
    <<<<"H", "a", "n", "d", "s", "t", "a", "n", "d", " ", "P", "u", "s", "h", " ", "U", "p">>, "Shoulders">>,
    <<<<"P", "i", "k", "e", " ", "P", "u", "s", "h", " ", "U", "p">>, "Shoulders">>,
    <<<<"B", "a", "r", "b", "e", "l", "l", " ", "F", "a", "c", "e", " ", "P", "u", "l", "l">>, "Shoulders">>,
    <<<<"C", "a", "b", "l", "e", " ", "F", "a", "c", "e", " ", "P", "u", "l", "l">>, "Shoulders">>,
    <<<<"L", "a", "n", "d", "m", "i", "n", "e", " ", "L", "a", "t", "e", "r", "a", "l", " ", "R", "a", "i", "s", "e">>, "Shoulders">>,
    <<<<"B", "r", "a", "d", "f", "o", "r", "d", " ", "P", "r", "e", "s", "s">>, "Shoulders">>,
    <<<<"C", "u", "b", "a", "n", " ", "P", "r", "e", "s", "s">>, "Shoulders">>,
    <<<<"D", "u", "m", "b", "b", "e", "l", "l", " ", "C", "o", "m", "p", "l", "e", "x">>, "Shoulders">>,
    <<<<"L", "a", "t", "e", "r", "a", "l", " ", "R", "a", "i", "s", "e", " ", "M", "a", "c", "h", "i", "n", "e">>, "Shoulders">>,
    <<<<"Y", "T", "W", " ", "R", "a", "i", "s", "e", "s">>, "Shoulders">>,
    <<<<"B", "i", "c", "e", "p", " ", "C", "u", "r", "l">>, "Arms">>,
    <<<<"B", "a", "r", "b", "e", "l", "l", " ", "C", "u", "r", "l">>, "Arms">>,
    <<<<"D", "u", "m", "b", "b", "e", "l", "l", " ", "C", "u", "r", "l">>, "Arms">>,
    <<<<"A", "l", "t", "e", "r", "n", "a", "t", "i", "n", "g", " ", "D", "u", "m", "b", "b", "e", "l", "l", " ", "C", "u", "r", "l">>, "Arms">>,
    <<<<"H", "a", "m", "m", "e", "r", " ", "C", "u", "r", "l">>, "Arms">>,
    <<<<"I", "n", "c", "l", "i", "n", "e", " ", "D", "u", "m", "b", "b", "e", "l", "l", " ", "C", "u", "r", "l">>, "Arms">>,
    <<<<"S", "p", "i", "d", "e", "r", " ", "C", "u", "r", "l">>, "Arms">>,
    <<<<"P", "r", "e", "a", "c", "h", "e", "r", " ", "C", "u", "r", "l">>, "Arms">>,
    <<<<"C", "a", "b", "l", "e", " ", "C", "u", "r", "l">>, "Arms">>,
    <<<<"C", "o", "n", "c", "e", "n", "t", "r", "a", "t", "i", "o", "n", " ", "C", "u", "r", "l">>, "Arms">>,
    <<<<"E", "Z", " ", "B", "a", "r", " ", "C", "u", "r", "l">>, "Arms">>,
    <<<<"R", "e", "v", "e", "r", "s", "e", " ", "C", "u", "r", "l">>, "Arms">>,
    <<<<"Z", "o", "t", "t", "m", "a", "n", " ", "C", "u", "r", "l">>, "Arms">>,
    <<<<"2", "1", "s">>, "Arms">>,
    <<<<"M", "a", "c", "h", "i", "n", "e", " ", "C", "u", "r", "l">>, "Arms">>,
    <<<<"R", "e", "s", "i", "s", "t", "a", "n", "c", "e", " ", "B", "a", "n", "d", " ", "C", "u", "r", "l">>, "Arms">>,
    <<<<"C", "r", "o", "s", "s", " ", "B", "o", "d", "y", " ", "C", "u", "r", "l">>, "Arms">>,
    <<<<"S", "c", "o", "t", "t", " ", "C", "u", "r", "l">>, "Arms">>,
    <<<<"R", "o", "p", "e", " ", "H", "a", "m", "m", "e", "r", " ", "C", "u", "r", "l">>, "Arms">>,
    <<<<"D", "r", "a", "g", " ", "C", "u", "r", "l">>, "Arms">>,
    <<<<"B", "a", "y", "e", "s", "i", "a", "n", " ", "C", "u", "r", "l">>, "Arms">>,
    <<<<"T", "r", "i", "c", "e", "p", " ", "E", "x", "t", "e", "n", "s", "i", "o", "n">>, "Arms">>,
    <<<<"T", "r", "i", "c", "e", "p", " ", "P", "u", "s", "h", "d", "o", "w", "n">>, "Arms">>,
    <<<<"R", "o", "p", "e", " ", "P", "u", "s", "h", "d", "o", "w", "n">>, "Arms">>,
    <<<<"V", "-", "B", "a", "r", " ", "P", "u", "s", "h", "d", "o", "w", "n">>, "Arms">>,
    <<<<"O", "v", "e", "r", "h", "e", "a", "d", " ", "T", "r", "i", "c", "e", "p", " ", "E", "x", "t", "e", "n", "s", "i", "o", "n">>, "Arms">>,
    <<<<"S", "k", "u", "l", "l", " ", "C", "r", "u", "s", "h", "e", "r">>, "Arms">>,
    <<<<"C", "l", "o", "s", "e", " ", "G", "r", "i", "p", " ", "B", "e", "n", "c", "h", " ", "P", "r", "e", "s", "s">>, "Arms">>,
    <<<<"D", "i", "a", "m", "o", "n", "d", " ", "P", "u", "s", "h", " ", "U", "p">>, "Arms">>,
    <<<<"D", "i", "p">>, "Arms">>,
    <<<<"T", "r", "i", "c", "e", "p", " ", "K", "i", "c", "k", "b", "a", "c", "k">>, "Arms">>,
    <<<<"J", "M", " ", "P", "r", "e", "s", "s">>, "Arms">>,
    <<<<"T", "a", "t", "e", " ", "P", "r", "e", "s", "s">>, "Arms">>,
    <<<<"B", "o", "a", "r", "d", " ", "P", "r", "e", "s", "s">>, "Arms">>,
    <<<<"R", "o", "l", "l", "i", "n", "g", " ", "T", "r", "i", "c", "e", "p", " ", "E", "x", "t", "e", "n", "s", "i", "o", "n">>, "Arms">>,
    <<<<"C", "a", "b", "l", "e", " ", "O", "v", "e", "r", "h", "e", "a", "d", " ", "T", "r", "i", "c", "e", "p", " ", "E", "x", "t", "e", "n", "s", "i", "o", "n">>, "Arms">>,
    <<<<"O", "n", "e", " ", "A", "r", "m", " ", "O", "v", "e", "r", "h", "e", "a", "d", " ", "E", "x", "t", "e", "n", "s", "i", "o", "n">>, "Arms">>,
    <<<<"M", "a", "c", "h", "i", "n", "e", " ", "T", "r", "i", "c", "e", "p", " ", "E", "x", "t", "e", "n", "s", "i", "o", "n">>, "Arms">>,
    <<<<"C", "a", "b", "l", "e", " ", "T", "r", "i", "c", "e", "p", " ", "E", "x", "t", "e", "n", "s", "i", "o", "n">>, "Arms">>,
    <<<<"F", "r", "e", "n", "c", "h", " ", "P", "r", "e", "s", "s">>, "Arms">>,
    <<<<"O", "n", "e", " ", "A", "r", "m", " ", "P", "u", "s", "h", "d", "o", "w", "n">>, "Arms">>,
    <<<<"B", "e", "n", "c", "h", " ", "D", "i", "p">>, "Arms">>,
    <<<<"S", "q", "u", "a", "t">>, "Legs">>,
    <<<<"B", "a", "c", "k", " ", "S", "q", "u", "a", "t">>, "Legs">>,
    <<<<"F", "r", "o", "n", "t", " ", "S", "q", "u", "a", "t">>, "Legs">>,
    <<<<"H", "a", "c", "k", " ", "S", "q", "u", "a", "t">>, "Legs">>,
    <<<<"G", "o", "b", "l", "e", "t", " ", "S", "q", "u", "a", "t">>, "Legs">>,
    <<<<"B", "u", "l", "g", "a", "r", "i", "a", "n", " ", "S", "p", "l", "i", "t", " ", "S", "q", "u", "a", "t">>, "Legs">>,
    <<<<"L", "u", "n", "g", "e">>, "Legs">>,
    <<<<"W", "a", "l", "k", "i", "n", "g", " ", "L", "u", "n", "g", "e">>, "Legs">>,
    <<<<"R", "e", "v", "e", "r", "s", "e", " ", "L", "u", "n", "g", "e">>, "Legs">>,
    <<<<"L", "a", "t", "e", "r", "a", "l", " ", "L", "u", "n", "g", "e">>, "Legs">>,
    <<<<"S", "t", "e", "p", " ", "U", "p">>, "Legs">>,
    <<<<"B", "o", "x", " ", "J", "u", "m", "p">>, "Cardio">>,
    <<<<"L", "e", "g", " ", "P", "r", "e", "s", "s">>, "Legs">>,
    <<<<"L", "e", "g", " ", "E", "x", "t", "e", "n", "s", "i", "o", "n">>, "Legs">>,
    <<<<"L", "e", "g", " ", "C", "u", "r", "l">>, "Legs">>,
    <<<<"S", "e", "a", "t", "e", "d", " ", "L", "e", "g", " ", "C", "u", "r", "l">>, "Legs">>,
    <<<<"L", "y", "i", "n", "g", " ", "L", "e", "g", " ", "C", "u", "r", "l">>, "Legs">>,
    <<<<"S", "t", "a", "n", "d", "i", "n", "g", " ", "C", "a", "l", "f", " ", "R", "a", "i", "s", "e">>, "Legs">>,
    <<<<"S", "e", "a", "t", "e", "d", " ", "C", "a", "l", "f", " ", "R", "a", "i", "s", "e">>, "Legs">>,
    <<<<"S", "i", "n", "g", "l", "e", " ", "L", "e", "g", " ", "D", "e", "a", "d", "l", "i", "f", "t">>, "Legs">>,
    <<<<"H", "i", "p", " ", "T", "h", "r", "u", "s", "t">>, "Legs">>,
    <<<<"G", "l", "u", "t", "e", " ", "B", "r", "i", "d", "g", "e">>, "Legs">>,
    <<<<"S", "i", "n", "g", "l", "e", " ", "L", "e", "g", " ", "G", "l", "u", "t", "e", " ", "B", "r", "i", "d", "g", "e">>, "Legs">>,
    <<<<"P", "i", "s", "t", "o", "l", " ", "S", "q", "u", "a", "t">>, "Legs">>,
    <<<<"S", "i", "s", "s", "y", " ", "S", "q", "u", "a", "t">>, "Legs">>,
    <<<<"W", "a", "l", "l", " ", "S", "i", "t">>, "Legs">>,
    <<<<"S", "m", "i", "t", "h", " ", "M", "a", "c", "h", "i", "n", "e", " ", "S", "q", "u", "a", "t">>, "Legs">>,
    <<<<"B", "e", "l", "t", " ", "S", "q", "u", "a", "t">>, "Legs">>,
    <<<<"J", "e", "f", "f", "e", "r", "s", "o", "n", " ", "S", "q", "u", "a", "t">>, "Legs">>,
    <<<<"Z", "e", "r", "c", "h", "e", "r", " ", "S", "q", "u", "a", "t">>, "Legs">>,
    <<<<"O", "v", "e", "r", "h", "e", "a", "d", " ", "S", "q", "u", "a", "t">>, "Olympic">>,
    <<<<"B", "o", "d", "y", "w", "e", "i", "g", "h", "t", " ", "S", "q", "u", "a", "t">>, "Legs">>,
    <<<<"J", "u", "m", "p", " ", "S", "q", "u", "a", "t">>, "Legs">>,
    <<<<"S", "p", "l", "i", "t", " ", "S", "q", "u", "a", "t">>, "Legs">>,
    <<<<"H", "a", "c", "k", " ", "S", "q", "u", "a", "t", " ", "M", "a", "c", "h", "i", "n", "e">>, "Legs">>,
    <<<<"D", "o", "n", "k", "e", "y", " ", "C", "a", "l", "f", " ", "R", "a", "i", "s", "e">>, "Legs">>,
    <<<<"M", "a", "c", "h", "i", "n", "e", " ", "C", "a", "l", "f", " ", "R", "a", "i", "s", "e">>, "Legs">>,
    <<<<"S", "l", "e", "d", " ", "P", "u", "s", "h">>, "Cardio">>,
    <<<<"L", "e", "g", " ", "A", "d", "d", "u", "c", "t", "i", "o", "n">>, "Legs">>,
    <<<<"L", "e", "g", " ", "A", "b", "d", "u", "c", "t", "i", "o", "n">>, "Legs">>,
    <<<<"C", "a", "b", "l", "e", " ", "P", "u", "l", "l", " ", "T", "h", "r", "o", "u", "g", "h">>, "Legs">>,
    <<<<"G", "l", "u", "t", "e", " ", "K", "i", "c", "k", "b", "a", "c", "k">>, "Legs">>,
    <<<<"N", "o", "r", "d", "i", "c", " ", "C", "u", "r", "l">>, "Legs">>,
    <<<<"K", "n", "e", "e", "l", "i", "n", "g", " ", "S", "q", "u", "a", "t">>, "Legs">>,
    <<<<"L", "a", "n", "d", "m", "i", "n", "e", " ", "S", "q", "u", "a", "t">>, "Legs">>,
    <<<<"S", "q", "u", "a", "t", " ", "J", "u", "m", "p">>, "Legs">>,
    <<<<"B", "o", "x", " ", "S", "q", "u", "a", "t">>, "Legs">>,
    <<<<"C", "o", "s", "s", "a", "c", "k", " ", "S", "q", "u", "a", "t">>, "Legs">>,
    <<<<"B", "a", "r", "b", "e", "l", "l", " ", "G", "l", "u", "t", "e", " ", "B", "r", "i", "d", "g", "e">>, "Legs">>,
    <<<<"S", "m", "i", "t", "h", " ", "M", "a", "c", "h", "i", "n", "e", " ", "C", "a", "l", "f", " ", "R", "a", "i", "s", "e">>, "Legs">>,
    <<<<"P", "l", "a", "n", "k">>, "Core">>,
    <<<<"S", "i", "d", "e", " ", "P", "l", "a", "n", "k">>, "Core">>,
    <<<<"C", "r", "u", "n", "c", "h">>, "Core">>,
    <<<<"S", "i", "t", " ", "U", "p">>, "Core">>,
    <<<<"R", "u", "s", "s", "i", "a", "n", " ", "T", "w", "i", "s", "t">>, "Core">>,
    <<<<"L", "e", "g", " ", "R", "a", "i", "s", "e">>, "Core">>,
    <<<<"H", "a", "n", "g", "i", "n", "g", " ", "L", "e", "g", " ", "R", "a", "i", "s", "e">>, "Core">>,
    <<<<"C", "a", "b", "l", "e", " ", "C", "r", "u", "n", "c", "h">>, "Core">>,
    <<<<"A", "b", " ", "W", "h", "e", "e", "l", " ", "R", "o", "l", "l", "o", "u", "t">>, "Core">>,
    <<<<"M", "o", "u", "n", "t", "a", "i", "n", " ", "C", "l", "i", "m", "b", "e", "r">>, "Core">>,
    <<<<"V", "-", "U", "p">>, "Core">>,
    <<<<"H", "o", "l", "l", "o", "w", " ", "H", "o", "l", "d">>, "Core">>,
    <<<<"D", "r", "a", "g", "o", "n", " ", "F", "l", "a", "g">>, "Core">>,
    <<<<"H", "a", "n", "g", "i", "n", "g", " ", "K", "n", "e", "e", " ", "R", "a", "i", "s", "e">>, "Core">>,
    <<<<"B", "i", "c", "y", "c", "l", "e", " ", "C", "r", "u", "n", "c", "h">>, "Core">>,
    <<<<"D", "e", "a", "d", " ", "B", "u", "g">>, "Core">>,
    <<<<"B", "i", "r", "d", " ", "D", "o", "g">>, "Core">>,
    <<<<"W", "o", "o", "d", " ", "C", "h", "o", "p", "p", "e", "r">>, "Core">>,
    <<<<"R", "e", "v", "e", "r", "s", "e", " ", "C", "r", "u", "n", "c", "h">>, "Core">>,
    <<<<"D", "e", "c", "l", "i", "n", "e", " ", "S", "i", "t", " ", "U", "p">>, "Core">>,
    <<<<"C", "a", "b", "l", "e", " ", "W", "o", "o", "d", " ", "C", "h", "o", "p", "p", "e", "r">>, "Core">>,
    <<<<"C", "a", "b", "l", "e", " ", "T", "w", "i", "s", "t">>, "Core">>,
    <<<<"M", "e", "d", "i", "c", "i", "n", "e", " ", "B", "a", "l", "l", " ", "S", "l", "a", "m">>, "Core">>,
    <<<<"O", "b", "l", "i", "q", "u", "e", " ", "C", "r", "u", "n", "c", "h">>, "Core">>,
    <<<<"P", "l", "a", "n", "k", " ", "V", "a", "r", "i", "a", "t", "i", "o", "n", "s">>, "Core">>,
    <<<<"L", "-", "S", "i", "t">>, "Core">>,
    <<<<"W", "i", "n", "d", "s", "h", "i", "e", "l", "d", " ", "W", "i", "p", "e", "r">>, "Core">>,
    <<<<"T", "o", "e", "s", " ", "t", "o", " ", "B", "a", "r">>, "Core">>,
    <<<<"M", "e", "d", "i", "c", "i", "n", "e", " ", "B", "a", "l", "l", " ", "T", "h", "r", "o", "w">>, "Compound">>,
    <<<<"P", "a", "l", "l", "o", "f", " ", "P", "r", "e", "s", "s">>, "Core">>,
    <<<<"W", "e", "i", "g", "h", "t", "e", "d", " ", "P", "l", "a", "n", "k">>, "Core">>,
    <<<<"W", "e", "i", "g", "h", "t", "e", "d", " ", "C", "r", "u", "n", "c", "h">>, "Core">>,
    <<<<"S", "u", "i", "t", "c", "a", "s", "e", " ", "C", "a", "r", "r", "y">>, "Core">>,
    <<<<"F", "a", "r", "m", "e", "r", "'", "s", " ", "W", "a", "l", "k">>, "Core">>,
    <<<<"S", "t", "o", "m", "a", "c", "h", " ", "V", "a", "c", "u", "u", "m">>, "Core">>,
    <<<<"S", "i", "d", "e", " ", "B", "e", "n", "d">>, "Core">>,
    <<<<"A", "b", " ", "M", "a", "c", "h", "i", "n", "e", " ", "C", "r", "u", "n", "c", "h">>, "Core">>,
    <<<<"C", "l", "e", "a", "n">>, "Olympic">>,
    <<<<"P", "o", "w", "e", "r", " ", "C", "l", "e", "a", "n">>, "Olympic">>,
    <<<<"H", "a", "n", "g", " ", "C", "l", "e", "a", "n">>, "Olympic">>,
    <<<<"C", "l", "e", "a", "n", " ", "a", "n", "d", " ", "J", "e", "r", "k">>, "Olympic">>,
    <<<<"S", "n", "a", "t", "c", "h">>, "Olympic">>,
    <<<<"P", "o", "w", "e", "r", " ", "S", "n", "a", "t", "c", "h">>, "Olympic">>,
    <<<<"H", "a", "n", "g", " ", "S", "n", "a", "t", "c", "h">>, "Olympic">>,
    <<<<"C", "l", "e", "a", "n", " ", "P", "u", "l", "l">>, "Olympic">>,
    <<<<"S", "n", "a", "t", "c", "h", " ", "P", "u", "l", "l">>, "Olympic">>,
    <<<<"P", "u", "s", "h", " ", "J", "e", "r", "k">>, "Olympic">>,
    <<<<"S", "p", "l", "i", "t", " ", "J", "e", "r", "k">>, "Olympic">>,
    <<<<"H", "i", "g", "h", " ", "P", "u", "l", "l">>, "Olympic">>,
    <<<<"M", "u", "s", "c", "l", "e", " ", "S", "n", "a", "t", "c", "h">>, "Olympic">>,
    <<<<"M", "u", "s", "c", "l", "e", " ", "C", "l", "e", "a", "n">>, "Olympic">>,
    <<<<"H", "a", "n", "g", " ", "P", "o", "w", "e", "r", " ", "C", "l", "e", "a", "n">>, "Olympic">>,
    <<<<"H", "a", "n", "g", " ", "P", "o", "w", "e", "r", " ", "S", "n", "a", "t", "c", "h">>, "Olympic">>,
    <<<<"C", "l", "e", "a", "n", " ", "H", "i", "g", "h", " ", "P", "u", "l", "l">>, "Olympic">>,
    <<<<"S", "n", "a", "t", "c", "h", " ", "B", "a", "l", "a", "n", "c", "e">>, "Olympic">>,
    <<<<"B", "a", "r", "b", "e", "l", "l", " ", "T", "h", "r", "u", "s", "t", "e", "r">>, "Olympic">>,
    <<<<"R", "u", "n", "n", "i", "n", "g">>, "Cardio">>,
    <<<<"J", "o", "g", "g", "i", "n", "g">>, "Cardio">>,
    <<<<"S", "p", "r", "i", "n", "t">>, "Cardio">>,
    <<<<"C", "y", "c", "l", "i", "n", "g">>, "Cardio">>,
    <<<<"S", "t", "a", "t", "i", "o", "n", "a", "r", "y", " ", "B", "i", "k", "e">>, "Cardio">>,
    <<<<"E", "l", "l", "i", "p", "t", "i", "c", "a", "l">>, "Cardio">>,
    <<<<"J", "u", "m", "p", " ", "R", "o", "p", "e">>, "Cardio">>,
    <<<<"B", "a", "t", "t", "l", "e", " ", "R", "o", "p", "e", "s">>, "Cardio">>,
    <<<<"S", "w", "i", "m", "m", "i", "n", "g">>, "Cardio">>,
    <<<<"R", "o", "w", "i", "n", "g">>, "Cardio">>,
    <<<<"W", "a", "l", "k", "i", "n", "g">>, "Cardio">>,
    <<<<"S", "t", "a", "i", "r", " ", "C", "l", "i", "m", "b", "e", "r">>, "Cardio">>,
    <<<<"J", "u", "m", "p", "i", "n", "g", " ", "J", "a", "c", "k">>, "Cardio">>,
    <<<<"B", "u", "r", "p", "e", "e">>, "Cardio">>,
    <<<<"T", "r", "e", "a", "d", "m", "i", "l", "l">>, "Cardio">>,
    <<<<"H", "I", "I", "T">>, "Cardio">>,
    <<<<"C", "i", "r", "c", "u", "i", "t", " ", "T", "r", "a", "i", "n", "i", "n", "g">>, "Cardio">>,
    <<<<"H", "i", "l", "l", " ", "S", "p", "r", "i", "n", "t">>, "Cardio">>,
    <<<<"S", "k", "i", " ", "E", "r", "g">>, "Cardio">>,
    <<<<"A", "s", "s", "a", "u", "l", "t", " ", "B", "i", "k", "e">>, "Cardio">>,
    <<<<"S", "l", "e", "d", " ", "P", "u", "l", "l">>, "Cardio">>,
    <<<<"P", "r", "o", "w", "l", "e", "r", " ", "P", "u", "s", "h">>, "Cardio">>,
    <<<<"S", "t", "a", "i", "r", "M", "a", "s", "t", "e", "r">>, "Cardio">>,
    <<<<"J", "a", "c", "o", "b", "'", "s", " ", "L", "a", "d", "d", "e", "r">>, "Cardio">>,
    <<<<"V", "e", "r", "s", "o", "C", "l", "i", "m", "b", "e", "r">>, "Cardio">>,
    <<<<"I", "n", "t", "e", "r", "v", "a", "l", " ", "T", "r", "a", "i", "n", "i", "n", "g">>, "Cardio">>,
    <<<<"A", "i", "r", "d", "y", "n", "e", " ", "B", "i", "k", "e">>, "Cardio">>,
    <<<<"T", "u", "r", "k", "i", "s", "h", " ", "G", "e", "t", " ", "U", "p">>, "Compound">>,
    <<<<"K", "e", "t", "t", "l", "e", "b", "e", "l", "l", " ", "S", "w", "i", "n", "g">>, "Compound">>,
    <<<<"T", "h", "r", "u", "s", "t", "e", "r">>, "Compound">>,
    <<<<"F", "a", "r", "m", "e", "r", "'", "s", " ", "C", "a", "r", "r", "y">>, "Compound">>,
    <<<<"T", "r", "a", "p", " ", "B", "a", "r", " ", "C", "a", "r", "r", "y">>, "Compound">>,
    <<<<"S", "l", "e", "d", " ", "D", "r", "a", "g">>, "Compound">>,
    <<<<"T", "i", "r", "e", " ", "F", "l", "i", "p">>, "Compound">>,
    <<<<"B", "a", "t", "t", "l", "e", " ", "R", "o", "p", "e", " ", "E", "x", "e", "r", "c", "i", "s", "e">>, "Compound">>,
    <<<<"M", "a", "n", " ", "M", "a", "k", "e", "r">>, "Compound">>,
    <<<<"C", "l", "e", "a", "n", " ", "a", "n", "d", " ", "P", "r", "e", "s", "s">>, "Compound">>,
    <<<<"S", "a", "n", "d", "b", "a", "g", " ", "C", "a", "r", "r", "y">>, "Compound">>,
    <<<<"S", "a", "n", "d", "b", "a", "g", " ", "C", "l", "e", "a", "n">>, "Compound">>,
    <<<<"L", "o", "g", " ", "P", "r", "e", "s", "s">>, "Compound">>,
    <<<<"S", "i", "n", "g", "l", "e", " ", "A", "r", "m", " ", "D", "u", "m", "b", "b", "e", "l", "l", " ", "S", "n", "a", "t", "c", "h">>, "Compound">>,
    <<<<"K", "e", "t", "t", "l", "e", "b", "e", "l", "l", " ", "S", "n", "a", "t", "c", "h">>, "Compound">>,
    <<<<"K", "e", "t", "t", "l", "e", "b", "e", "l", "l", " ", "C", "l", "e", "a", "n">>, "Compound">>,
    <<<<"M", "e", "d", "i", "c", "i", "n", "e", " ", "B", "a", "l", "l", " ", "C", "l", "e", "a", "n">>, "Compound">>
>>

\* The atoms of the patterns: a character, or one of the two starred classes.
WhitespaceStar == "\\s*"
WhitespaceDashStar == "[\\s-]*"

\* MUSCLE_GROUP_PATTERNS, in the order of the literal.
MUSCLE_GROUP_PATTERNS == <<
    <<"Chest", <<
        <<"b", "e", "n", "c", "h", WhitespaceStar, "p", "r", "e", "s", "s">>,
        <<"p", "u", "s", "h", WhitespaceStar, "u", "p">>,
        <<"c", "h", "e", "s", "t", WhitespaceStar, "p", "r", "e", "s", "s">>,
        <<"c", "h", "e", "s", "t", WhitespaceStar, "f", "l", "y">>,
        <<"i", "n", "c", "l", "i", "n", "e", WhitespaceStar, "p", "r", "e", "s", "s">>,
        <<"d", "e", "c", "l", "i", "n", "e", WhitespaceStar, "p", "r", "e", "s", "s">>,
        <<"d", "i", "p">>,
        <<"s", "v", "e", "n", "d", WhitespaceStar, "p", "r", "e", "s", "s">>,
        <<"p", "e", "c", WhitespaceStar, "d", "e", "c", "k">>,
        <<"c", "a", "b", "l", "e", WhitespaceStar, "c", "r", "o", "s", "s">>,
        <<"c", "h", "e", "s", "t", WhitespaceStar, "d", "i", "p">>
    >> >>,
    <<"Back", <<
        <<"d", "e", "a", "d", "l", "i", "f", "t">>,
        <<"r", "o", "w">>,
        <<"p", "u", "l", "l", WhitespaceDashStar, "u", "p">>,
        <<"l", "a", "t", WhitespaceStar, "p", "u", "l", "l">>,
        <<"c", "h", "i", "n", WhitespaceDashStar, "u", "p">>,
        <<"p", "u", "l", "l", "d", "o", "w", "n">>,
        <<"b", "a", "c", "k", WhitespaceStar, "e", "x", "t", "e", "n", "s", "i", "o", "n">>,
        <<"g", "o", "o", "d", WhitespaceStar, "m", "o", "r", "n", "i", "n", "g">>,
        <<"h", "y", "p", "e", "r", WhitespaceStar, "e", "x", "t", "e", "n", "s", "i", "o", "n">>,
        <<"p", "u", "l", "l", WhitespaceStar, "o", "v", "e", "r">>,
        <<"s", "h", "r", "u", "g">>,
        <<"f", "a", "c", "e", WhitespaceStar, "p", "u", "l", "l">>,
        <<"t", WhitespaceStar, "b", "a", "r">>
    >> >>,
    <<"Legs", <<
        <<"s", "q", "u", "a", "t">>,
        <<"l", "u", "n", "g", "e">>,
        <<"l", "e", "g", WhitespaceStar, "p", "r", "e", "s", "s">>,
        <<"l", "e", "g", WhitespaceStar, "e", "x", "t", "e", "n", "s", "i", "o", "n">>,
        <<"l", "e", "g", WhitespaceStar, "c", "u", "r", "l">>,
        <<"c", "a", "l", "f", WhitespaceStar, "r", "a", "i", "s", "e">>,
        <<"h", "i", "p", WhitespaceStar, "t", "h", "r", "u", "s", "t">>,
        <<"h", "a", "c", "k", WhitespaceStar, "s", "q", "u", "a", "t">>,
        <<"g", "l", "u", "t", "e", WhitespaceStar, "b", "r", "i", "d", "g", "e">>,
        <<"b", "u", "l", "g", "a", "r", "i", "a", "n", WhitespaceStar, "s", "p", "l", "i", "t">>,
        <<"s", "t", "e", "p", WhitespaceStar, "u", "p">>,
        <<"b", "o", "x", WhitespaceStar, "j", "u", "m", "p">>,
        <<"p", "i", "s", "t", "o", "l">>,
        <<"w", "a", "l", "l", WhitespaceStar, "s", "i", "t">>
    >> >>,
    <<"Shoulders", <<
        <<"s", "h", "o", "u", "l", "d", "e", "r", WhitespaceStar, "p", "r", "e", "s", "s">>,
        <<"o", "v", "e", "r", "h", "e", "a", "d", WhitespaceStar, "p", "r", "e", "s", "s">>,
        <<"m", "i", "l", "i", "t", "a", "r", "y", WhitespaceStar, "p", "r", "e", "s", "s">>,
        <<"o", "h", "p">>,
        <<"l", "a", "t", "e", "r", "a", "l", WhitespaceStar, "r", "a", "i", "s", "e">>,
        <<"f", "r", "o", "n", "t", WhitespaceStar, "r", "a", "i", "s", "e">>,
        <<"r", "e", "a", "r", WhitespaceStar, "d", "e", "l", "t">>,
        <<"u", "p", "r", "i", "g", "h", "t", WhitespaceStar, "r", "o", "w">>,
        <<"a", "r", "n", "o", "l", "d", WhitespaceStar, "p", "r", "e", "s", "s">>,
        <<"r", "e", "v", "e", "r", "s", "e", WhitespaceStar, "f", "l", "y">>,
        <<"f", "a", "c", "e", WhitespaceStar, "p", "u", "l", "l">>,
        <<"c", "l", "e", "a", "n", WhitespaceStar, "a", "n", "d", WhitespaceStar, "p", "r", "e", "s", "s">>
    >> >>,
    <<"Arms", <<
        <<"c", "u", "r", "l">>,
        <<"t", "r", "i", "c", "e", "p">>,
        <<"e", "x", "t", "e", "n", "s", "i", "o", "n">>,
        <<"p", "u", "s", "h", "d", "o", "w", "n">>,
        <<"s", "k", "u", "l", "l", WhitespaceStar, "c", "r", "u", "s", "h", "e", "r">>,
        <<"h", "a", "m", "m", "e", "r", WhitespaceStar, "c", "u", "r", "l">>,
        <<"c", "o", "n", "c", "e", "n", "t", "r", "a", "t", "i", "o", "n", WhitespaceStar, "c", "u", "r", "l">>,
        <<"p", "r", "e", "a", "c", "h", "e", "r", WhitespaceStar, "c", "u", "r", "l">>,
        <<"c", "l", "o", "s", "e", WhitespaceStar, "g", "r", "i", "p">>,
        <<"d", "i", "a", "m", "o", "n", "d", WhitespaceStar, "p", "u", "s", "h">>,
        <<"d", "i", "p">>,
        <<"k", "i", "c", "k", "b", "a", "c", "k">>
    >> >>,
    <<"Core", <<
        <<"c", "r", "u", "n", "c", "h">>,
        <<"s", "i", "t", WhitespaceDashStar, "u", "p">>,
        <<"p", "l", "a", "n", "k">>,
        <<"a", "b">>,
        <<"r", "u", "s", "s", "i", "a", "n", WhitespaceStar, "t", "w", "i", "s", "t">>,
        <<"l", "e", "g", WhitespaceStar, "r", "a", "i", "s", "e">>,
        <<"m", "o", "u", "n", "t", "a", "i", "n", WhitespaceStar, "c", "l", "i", "m", "b", "e", "r">>,
        <<"h", "o", "l", "l", "o", "w", WhitespaceStar, "h", "o", "l", "d">>,
        <<"v", WhitespaceDashStar, "u", "p">>,
        <<"b", "i", "c", "y", "c", "l", "e">>,
        <<"h", "a", "n", "g", "i", "n", "g", WhitespaceStar, "l", "e", "g">>,
        <<"r", "o", "l", "l", "o", "u", "t">>,
        <<"d", "r", "a", "g", "o", "n", WhitespaceStar, "f", "l", "a", "g">>
    >> >>,
    <<"Cardio", <<
        <<"r", "u", "n">>,
        <<"c", "a", "r", "d", "i", "o">>,
        <<"e", "l", "l", "i", "p", "t", "i", "c", "a", "l">>,
        <<"b", "i", "k", "e">>,
        <<"c", "y", "c", "l", "i", "n", "g">>,
        <<"t", "r", "e", "a", "d", "m", "i", "l", "l">>,
        <<"r", "o", "w", "i", "n", "g">>,
        <<"j", "u", "m", "p", WhitespaceStar, "r", "o", "p", "e">>,
        <<"b", "u", "r", "p", "e", "e">>,
        <<"j", "u", "m", "p", "i", "n", "g", WhitespaceStar, "j", "a", "c", "k">>,
        <<"s", "p", "r", "i", "n", "t">>,
        <<"h", "i", "i", "t">>,
        <<"i", "n", "t", "e", "r", "v", "a", "l">>,
        <<"s", "t", "a", "i", "r", "m", "a", "s", "t", "e", "r">>
    >> >>,
    <<"Olympic", <<
        <<"c", "l", "e", "a", "n">>,
        <<"j", "e", "r", "k">>,
        <<"s", "n", "a", "t", "c", "h">>,
        <<"p", "o", "w", "e", "r", WhitespaceStar, "c", "l", "e", "a", "n">>,
        <<"h", "a", "n", "g", WhitespaceStar, "c", "l", "e", "a", "n">>,
        <<"s", "p", "l", "i", "t", WhitespaceStar, "j", "e", "r", "k">>,
        <<"p", "u", "s", "h", WhitespaceStar, "j", "e", "r", "k">>,
        <<"p", "u", "s", "h", WhitespaceStar, "p", "r", "e", "s", "s">>
    >> >>
>>

-----------------------------------------------------------------------------
(* config/mappings.py: map_exercise_to_muscle_group                        *)

\* str.lower() on the characters the names are written in.
ToLower ==
    ("A" :> "a") @@ ("B" :> "b") @@ ("C" :> "c") @@ ("D" :> "d") @@ ("E" :> "e") @@
    ("F" :> "f") @@ ("G" :> "g") @@ ("H" :> "h") @@ ("I" :> "i") @@ ("J" :> "j") @@
    ("K" :> "k") @@ ("L" :> "l") @@ ("M" :> "m") @@ ("N" :> "n") @@ ("O" :> "o") @@
    ("P" :> "p") @@ ("Q" :> "q") @@ ("R" :> "r") @@ ("S" :> "s") @@ ("T" :> "t") @@
    ("U" :> "u") @@ ("V" :> "v") @@ ("W" :> "w") @@ ("X" :> "x") @@ ("Y" :> "y") @@
    ("Z" :> "z")

Lower(s) == [k \in 1 .. Len(s) |-> IF s[k] \in DOMAIN ToLower THEN ToLower[s[k]] ELSE s[k]]

\* Python's `a in b` on two strings.
Contains(b, a) ==
    \E off \in 0 .. Len(b) - Len(a) : \A k \in 1 .. Len(a) : b[off + k] = a[k]

\* The characters \s matches, and the two starred classes of the patterns.
Whitespace == {" ", "\t", "\n", "\r"}
StarClass == (WhitespaceStar :> Whitespace) @@ (WhitespaceDashStar :> Whitespace \cup {"-"})

\* Whether pattern[a ..] matches a prefix of s[b ..].
RECURSIVE MatchHere(_, _, _, _)
MatchHere(pattern, a, s, b) ==
    IF a > Len(pattern) THEN TRUE
    ELSE IF pattern[a] \in DOMAIN StarClass
         THEN \/ MatchHere(pattern, a + 1, s, b)
              \/ /\ b <= Len(s)
                 /\ s[b] \in StarClass[pattern[a]]
                 /\ MatchHere(pattern, a, s, b + 1)
         ELSE /\ b <= Len(s)
              /\ s[b] = pattern[a]
              /\ MatchHere(pattern, a + 1, s, b + 1)

\* re.search(pattern, s)
re_search(pattern, s) == \E b \in 1 .. Len(s) + 1 : MatchHere(pattern, 1, s, b)

\* The values handed to the classifier: a str, None, or a number (NaN included).
Str(chars) == [type |-> "str", value |-> chars]
None == [type |-> "NoneType", value |-> <<>>]
NaN == [type |-> "float", value |-> <<"n", "a", "n">>]
Number(n) == [type |-> "int", value |-> n]

\* Python's truth value: None, "", 0 are false; NaN and other numbers are true.
Truthy(x) ==
    CASE x.type = "NoneType" -> FALSE
      [] x.type = "str" -> x.value # <<>>
      [] x.type = "int" -> x.value # 0
      [] OTHER -> TRUE

NoMatch == "no match"

\* The two loops `for name, muscle_group in EXERCISE_MUSCLE_MAP.items(): if
\* ...: return muscle_group` run over the entries lo .. hi in order: the lower
\* half is searched first, and the upper half only when it returned nothing.

\* 415-417: the first curated name equal to the input, both lowered.
RECURSIVE DirectLookup(_, _, _)
DirectLookup(exercise, lo, hi) ==
    IF lo > hi THEN NoMatch
    ELSE IF lo = hi
         THEN IF Lower(EXERCISE_MUSCLE_MAP[lo][1]) = Lower(exercise)
              THEN EXERCISE_MUSCLE_MAP[lo][2]
              ELSE NoMatch
         ELSE LET mid == (lo + hi) \div 2
                  first == DirectLookup(exercise, lo, mid)
              IN  IF first # NoMatch THEN first
                  ELSE DirectLookup(exercise, mid + 1, hi)

\* 420-423: the first curated name that is in the input or that the input is in.
RECURSIVE PartialLookup(_, _, _)
PartialLookup(exercise_lower, lo, hi) ==
    IF lo > hi THEN NoMatch
    ELSE IF lo = hi
         THEN IF \/ Contains(exercise_lower, Lower(EXERCISE_MUSCLE_MAP[lo][1]))
                 \/ Contains(Lower(EXERCISE_MUSCLE_MAP[lo][1]), exercise_lower)
              THEN EXERCISE_MUSCLE_MAP[lo][2]
              ELSE NoMatch
         ELSE LET mid == (lo + hi) \div 2
                  first == PartialLookup(exercise_lower, lo, mid)
              IN  IF first # NoMatch THEN first
                  ELSE PartialLookup(exercise_lower, mid + 1, hi)

\* 426-429: the first group one of whose patterns is found in the input.
RECURSIVE PatternLookup(_, _)
PatternLookup(g, exercise_lower) ==
    IF g > Len(MUSCLE_GROUP_PATTERNS) THEN NoMatch
    ELSE IF \E p \in 1 .. Len(MUSCLE_GROUP_PATTERNS[g][2]) :
                re_search(MUSCLE_GROUP_PATTERNS[g][2][p], exercise_lower)
         THEN MUSCLE_GROUP_PATTERNS[g][1]
         ELSE PatternLookup(g + 1, exercise_lower)

\* A plausible slip: the partial match tried before the exact one.
map_exercise_partial_first(x) ==
    IF ~Truthy(x) \/ x.type # "str" THEN "Other"
    ELSE LET partial == PartialLookup(Lower(x.value), 1, Len(EXERCISE_MUSCLE_MAP))
             direct == DirectLookup(x.value, 1, Len(EXERCISE_MUSCLE_MAP))
             pattern == PatternLookup(1, Lower(x.value))
         IN  IF partial # NoMatch THEN partial
             ELSE IF direct # NoMatch THEN direct
             ELSE IF pattern # NoMatch THEN pattern
             ELSE "Other"

\* A plausible slip: the guard checks the type and not the emptiness.
map_exercise_type_guard_only(x) ==
    IF x.type # "str" THEN "Other"
    ELSE LET direct == DirectLookup(x.value, 1, Len(EXERCISE_MUSCLE_MAP))
             partial == PartialLookup(Lower(x.value), 1, Len(EXERCISE_MUSCLE_MAP))
             pattern == PatternLookup(1, Lower(x.value))
         IN  IF direct # NoMatch THEN direct
             ELSE IF partial # NoMatch THEN partial
             ELSE IF pattern # NoMatch THEN pattern
             ELSE "Other"

\* 411-433
map_exercise_to_muscle_group(x) ==
    IF ~Truthy(x) \/ x.type # "str" THEN "Other"
    ELSE LET direct == DirectLookup(x.value, 1, Len(EXERCISE_MUSCLE_MAP))
             partial == PartialLookup(Lower(x.value), 1, Len(EXERCISE_MUSCLE_MAP))
             pattern == PatternLookup(1, Lower(x.value))
         IN  IF direct # NoMatch THEN direct
             ELSE IF partial # NoMatch THEN partial
             ELSE IF pattern # NoMatch THEN pattern
             ELSE "Other"

\* 435-444: list(MUSCLE_GROUP_PATTERNS.keys()) + ["Other"]
get_all_muscle_groups ==
    [g \in 1 .. Len(MUSCLE_GROUP_PATTERNS) |-> MUSCLE_GROUP_PATTERNS[g][1]] \o <<"Other">>

-----------------------------------------------------------------------------
(* Calls of map_exercise_to_muscle_group                                   *)

MaxParts == 2           \* parts of an exercise name

Parts == <<
    <<"I", "n", "c", "l", "i", "n", "e", " ", "D", "u", "m", "b", "b", "e", "l", "l">>,
    <<"B", "e", "n", "c", "h", " ", "P", "r", "e", "s", "s">>,
    <<"C", "l", "o", "s", "e", " ", "G", "r", "i", "p">>,
    <<"c", "l", "e", "a", "n", " ", "a", "n", "d", " ", "p", "r", "e", "s", "s">>,
    <<"C", "h", "i", "n", "-", "u", "p">>,
    <<"Y", "o", "g", "a">>,
    <<"D", "I", "P">>,
    <<"O", "h", "p">>
>>

\* The parts joined by single spaces.
RECURSIVE Join(_)
Join(ps) ==
    IF Len(ps) = 1 THEN Parts[ps[1]]
    ELSE Parts[ps[1]] \o <<" ">> \o Join(Tail(ps))

ExerciseNameInputs ==
    {Str(Join(ps)) : ps \in UNION {[1 .. n -> 1 .. Len(Parts)] : n \in 1 .. MaxParts}}
    \cup {Str(<<>>), Str(<<" ">>), None, NaN, Number(0), Number(7)}

ClsIdle ==
    /\ exercise_name = None /\ classified = 0
    /\ muscle_group = "" /\ prev_muscle_group = ""

InitClassify ==
    /\ exercise_name \in ExerciseNameInputs
    /\ classified = 0
    /\ muscle_group = "" /\ prev_muscle_group = ""

\* The first call.
Classify ==
    /\ classified = 0
    /\ muscle_group' = map_exercise_to_muscle_group(exercise_name)
    /\ classified' = 1
    /\ UNCHANGED <<exercise_name, prev_muscle_group>>

\* A second call with the same argument.
ClassifyAgain ==
    /\ classified = 1
    /\ prev_muscle_group' = muscle_group
    /\ muscle_group' = map_exercise_to_muscle_group(exercise_name)
    /\ classified' = 2
    /\ UNCHANGED exercise_name

-----------------------------------------------------------------------------
(* Calls of calculate_1rm on bounded inputs                                *)

MaxWeight == 3          \* weights -1 .. MaxWeight (kg)
MaxReps == 38           \* reps -1 .. MaxReps

WeightRange == -1 .. MaxWeight
RepsRange == -1 .. MaxReps

OrmIdle ==
    /\ calls = 0 /\ weight = 0 /\ reps = 0 /\ one_rm = Q(0)
    /\ prev_reps = 0 /\ prev_one_rm = Q(0)

Init1RM ==
    /\ calls = 0
    /\ weight \in WeightRange
    /\ reps \in RepsRange
    /\ one_rm = Q(0) /\ prev_reps = 0 /\ prev_one_rm = Q(0)

\* The first call: one_rm = calculate_1rm(weight, reps).
Call1RM ==
    /\ calls = 0
    /\ one_rm' = calculate_1rm(weight, reps)
    /\ calls' = 1
    /\ UNCHANGED <<weight, reps, prev_reps, prev_one_rm>>

\* A further call at the same weight; the caller keeps the result before it.
CallAgain ==
    /\ calls >= 1
    /\ \E r \in RepsRange :
          /\ reps' = r
          /\ one_rm' = calculate_1rm(weight, r)
    /\ prev_reps' = reps
    /\ prev_one_rm' = one_rm
    /\ calls' = 2
    /\ UNCHANGED weight

-----------------------------------------------------------------------------
(* The DataFrame                                                           *)

MaxRows == 3            \* rows of a dataset

\* A row as read from the CSV; the derived columns hold placeholders until
\* the column is in `columns`.
RawRow(d, e, w, r) ==
    [Date |-> d, ExerciseName |-> e, Weight |-> w, Reps |-> r,
     Volume |-> 0, OneRM |-> Q(0),
     IsWeightPR |-> FALSE, IsRepsPR |-> FALSE, IsVolumePR |-> FALSE,
     Is1RMPR |-> FALSE, IsAnyPR |-> FALSE]

Dates == {1, 8, 15}                 \* 2024-01-01, 2024-01-08, 2024-01-15
BenchSets == {<<60, 5>>, <<65, 5>>, <<62, 5>>}              \* <<kg, reps>>
PullUpSets == {<<1, 0, 8>>, <<8, 20, 0>>}                   \* <<date, kg, reps>>

RowSpace ==
    {RawRow(d, "Bench Press", s[1], s[2]) : d \in Dates, s \in BenchSets}
    \cup {RawRow(s[1], "Pull Up", s[2], s[3]) : s \in PullUpSets}

Datasets == UNION {[1 .. n -> RowSpace] : n \in 0 .. MaxRows}

RequiredColumns ==
    {"Date", "Workout Name", "Exercise Name", "Set Order", "Weight (kg)", "Reps"}
PRColumns == {"Is Weight PR", "Is Reps PR", "Is Volume PR", "Is 1RM PR"}

Labels(rows, e) == {i \in 1 .. Len(rows) : rows[i].ExerciseName = e}
ExerciseNamesOf(rows) == {rows[i].ExerciseName : i \in 1 .. Len(rows)}

\* The orders sort_values('Date') may put the rows of exercise e in: ascending
\* by Date; the default kind ('quicksort') does not fix the order of equal dates.
DateSortedOrders(rows, e) ==
    LET L == Labels(rows, e)
        n == Cardinality(L)
    IN  {s \in [1 .. n -> L] :
            /\ \A i, j \in 1 .. n : i # j => s[i] # s[j]
            /\ \A i \in 1 .. n - 1 : rows[s[i]].Date <= rows[s[i + 1]].Date}

\* The keys of groupby('Exercise Name'), in the order groupby yields them:
\* sorted, so "Bench Press" before "Pull Up".
ExerciseOrder == <<"Bench Press", "Pull Up">>
GroupKeys(rows) ==
    LET present(e) == e \in ExerciseNamesOf(rows)
    IN  SelectSeq(ExerciseOrder, present)

Flags(row) ==
    <<row.IsWeightPR, row.IsRepsPR, row.IsVolumePR, row.Is1RMPR, row.IsAnyPR>>
FlagsOf(rows) == [i \in 1 .. Len(rows) |-> Flags(rows[i])]

-----------------------------------------------------------------------------
(* data/parser.py: parse_strong_csv, and data/processor.py: preprocess_data *)

\* parser.py 89-90: df['Volume'] = df['Weight (kg)'] * df['Reps'], whatever
\* the file held.
Parse ==
    /\ pc = "raw"
    /\ df' = [i \in 1 .. Len(df) |-> [df[i] EXCEPT !.Volume = df[i].Weight * df[i].Reps]]
    /\ columns' = columns \cup {"Volume"}
    /\ pc' = "parsed"
    /\ UNCHANGED <<sorted_idx, groups, exercise_name_, exercise_df,
                   max_weight, max_reps, max_volume, max_1rm,
                   weight_pr_indices, reps_pr_indices, volume_pr_indices,
                   orm_pr_indices, first_flags>>
    /\ UNCHANGED besidesPipe

\* A plausible slip: Volume recomputed whether or not the column is there.
EnsureVolume_always(cols, row) == row.Weight * row.Reps

\* processor.py 61-64: "Ensure Volume is calculated".
EnsureVolume(cols, row) ==
    IF "Volume" \notin cols THEN row.Weight * row.Reps ELSE row.Volume

\* processor.py 36-64: the copy, the 1RM column and the Volume column.
Enrich ==
    /\ pc = "parsed"
    /\ df' = [i \in 1 .. Len(df) |->
                [df[i] EXCEPT !.OneRM = calculate_1rm(df[i].Weight, df[i].Reps),
                              !.Volume = EnsureVolume(columns, df[i])]]
    /\ columns' = columns \cup {"1RM", "Volume"}
    /\ pc' = "enriched"
    /\ UNCHANGED <<sorted_idx, groups, exercise_name_, exercise_df,
                   max_weight, max_reps, max_volume, max_1rm,
                   weight_pr_indices, reps_pr_indices, volume_pr_indices,
                   orm_pr_indices, first_flags>>
    /\ UNCHANGED besidesPipe

-----------------------------------------------------------------------------
(* data/processor.py: identify_personal_records                            *)

\* A plausible slip: a set that ties the running maximum counted as a record.
CheckPR_ties(row, value, running_max) ==
    GE(value, running_max) /\ GT(value, Q(0))

\* A plausible slip: every positive set counted as a record.
CheckPR_positive(row, value, running_max) ==
    GT(value, Q(0))

\* A plausible slip: sets already marked in 'Is Any PR' passed over.
CheckPR_skip_flagged(row, value, running_max) ==
    ~row.IsAnyPR /\ GT(value, running_max) /\ GT(value, Q(0))

\* 200, 205, 211, 216: `value > max_so_far and value > 0`.
CheckPR(row, value, running_max) ==
    GT(value, running_max) /\ GT(value, Q(0))

\* 186-195: the running maxima and the index lists of one exercise.
ScanInit ==
    [max_weight |-> 0, max_reps |-> 0, max_volume |-> 0, max_1rm |-> Q(0),
     weight_pr_indices |-> <<>>, reps_pr_indices |-> <<>>,
     volume_pr_indices |-> <<>>, orm_pr_indices |-> <<>>]

\* 198-218: one iteration of `for idx, row in exercise_df.iterrows()`.
CheckSetOn(st, row, idx) ==
    LET w == CheckPR(row, Q(row.Weight), Q(st.max_weight))
        r == CheckPR(row, Q(row.Reps), Q(st.max_reps))
        v == CheckPR(row, Q(row.Volume), Q(st.max_volume))
        o == CheckPR(row, row.OneRM, st.max_1rm)
    IN  [max_weight |-> IF w THEN row.Weight ELSE st.max_weight,
         max_reps |-> IF r THEN row.Reps ELSE st.max_reps,
         max_volume |-> IF v THEN row.Volume ELSE st.max_volume,
         max_1rm |-> IF o THEN row.OneRM ELSE st.max_1rm,
         weight_pr_indices |->
            IF w THEN Append(st.weight_pr_indices, idx) ELSE st.weight_pr_indices,
         reps_pr_indices |->
            IF r THEN Append(st.reps_pr_indices, idx) ELSE st.reps_pr_indices,
         volume_pr_indices |->
            IF v THEN Append(st.volume_pr_indices, idx) ELSE st.volume_pr_indices,
         orm_pr_indices |->
            IF o THEN Append(st.orm_pr_indices, idx) ELSE st.orm_pr_indices]

Range(s) == {s[k] : k \in 1 .. Len(s)}

\* The least element of a set of numbers.
Least(S) == CHOOSE m \in S : \A n \in S : m <= n

\* 175-178: the four PR columns set to False ('Is Any PR' is not touched here).
InitPRColumns(rows) ==
    [i \in 1 .. Len(rows) |->
        [rows[i] EXCEPT !.IsWeightPR = FALSE, !.IsRepsPR = FALSE,
                        !.IsVolumePR = FALSE, !.Is1RMPR = FALSE]]

\* 221-224: result_df.loc[indices, column] = True.
SetPRFlags(rows, st) ==
    [i \in 1 .. Len(rows) |->
        [rows[i] EXCEPT
            !.IsWeightPR = @ \/ i \in Range(st.weight_pr_indices),
            !.IsRepsPR = @ \/ i \in Range(st.reps_pr_indices),
            !.IsVolumePR = @ \/ i \in Range(st.volume_pr_indices),
            !.Is1RMPR = @ \/ i \in Range(st.orm_pr_indices)]]

\* 227-232: the 'Is Any PR' column.
SetAnyPR(rows) ==
    [i \in 1 .. Len(rows) |->
        [rows[i] EXCEPT !.IsAnyPR = rows[i].IsWeightPR \/ rows[i].IsRepsPR
                                     \/ rows[i].IsVolumePR \/ rows[i].Is1RMPR]]

\* 198-218: the whole loop over the sorted rows `order` of one exercise.
RECURSIVE ScanFrom(_, _, _, _)
ScanFrom(rows, order, k, st) ==
    IF k > Len(order) THEN st
    ELSE ScanFrom(rows, order, k + 1, CheckSetOn(st, rows[order[k]], order[k]))

\* 181-224: the loop over the groups, each group's flags written after its scan.
RECURSIVE ScanGroups(_, _, _)
ScanGroups(rows, keys, order) ==
    IF keys = <<>> THEN rows
    ELSE ScanGroups(SetPRFlags(rows, ScanFrom(rows, order[Head(keys)], 1, ScanInit)),
                    Tail(keys), order)

\* 172-234: the function as a whole; `order` is what sort_values('Date') yields.
identify_personal_records(rows, order) ==
    SetAnyPR(ScanGroups(InitPRColumns(rows), GroupKeys(rows), order))

ScanState ==
    [max_weight |-> max_weight, max_reps |-> max_reps,
     max_volume |-> max_volume, max_1rm |-> max_1rm,
     weight_pr_indices |-> weight_pr_indices, reps_pr_indices |-> reps_pr_indices,
     volume_pr_indices |-> volume_pr_indices, orm_pr_indices |-> orm_pr_indices]

SetScanState(st) ==
    /\ max_weight' = st.max_weight
    /\ max_reps' = st.max_reps
    /\ max_volume' = st.max_volume
    /\ max_1rm' = st.max_1rm
    /\ weight_pr_indices' = st.weight_pr_indices
    /\ reps_pr_indices' = st.reps_pr_indices
    /\ volume_pr_indices' = st.volume_pr_indices
    /\ orm_pr_indices' = st.orm_pr_indices

scanVars == <<max_weight, max_reps, max_volume, max_1rm,
              weight_pr_indices, reps_pr_indices, volume_pr_indices, orm_pr_indices>>

\* 172-181: the copy, the PR columns, and groupby('Exercise Name').
StartPRs ==
    /\ pc = "enriched"
    /\ df' = InitPRColumns(df)
    /\ columns' = columns \cup PRColumns
    /\ groups' = GroupKeys(df)
    /\ pc' = "scanning"
    /\ UNCHANGED <<sorted_idx, exercise_name_, exercise_df, scanVars, first_flags>>
    /\ UNCHANGED besidesPipe

\* 181-195: the next group, sorted by Date, with fresh maxima and index lists.
StartGroup ==
    /\ pc = "scanning"
    /\ exercise_name_ = ""
    /\ groups # <<>>
    /\ exercise_name_' = Head(groups)
    /\ groups' = Tail(groups)
    /\ exercise_df' = sorted_idx[Head(groups)]
    /\ SetScanState(ScanInit)
    /\ UNCHANGED <<columns, df, pc, sorted_idx, first_flags>>
    /\ UNCHANGED besidesPipe

\* 198-218: one set of the group.
CheckSet ==
    /\ pc = "scanning"
    /\ exercise_name_ # ""
    /\ exercise_df # <<>>
    /\ SetScanState(CheckSetOn(ScanState, df[Head(exercise_df)], Head(exercise_df)))
    /\ exercise_df' = Tail(exercise_df)
    /\ UNCHANGED <<columns, df, pc, sorted_idx, groups, exercise_name_, first_flags>>
    /\ UNCHANGED besidesPipe

\* 221-224: the group's flags written into result_df.
UpdateFlags ==
    /\ pc = "scanning"
    /\ exercise_name_ # ""
    /\ exercise_df = <<>>
    /\ df' = SetPRFlags(df, ScanState)
    /\ exercise_name_' = ""
    /\ UNCHANGED <<columns, pc, sorted_idx, groups, exercise_df, scanVars, first_flags>>
    /\ UNCHANGED besidesPipe

\* 227-234: 'Is Any PR', and the return.
AddAnyPR ==
    /\ pc = "scanning"
    /\ exercise_name_ = ""
    /\ groups = <<>>
    /\ df' = SetAnyPR(df)
    /\ columns' = columns \cup {"Is Any PR"}
    /\ pc' = "flagged"
    /\ UNCHANGED <<sorted_idx, groups, exercise_name_, exercise_df, scanVars, first_flags>>
    /\ UNCHANGED besidesPipe

\* identify_personal_records applied to its own output; the caller keeps the
\* flags of the first application to compare.  The Date column is the same, so
\* sort_values yields the same order.
Reapply ==
    /\ pc = "flagged"
    /\ first_flags' = FlagsOf(df)
    /\ df' = identify_personal_records(df, sorted_idx)
    /\ pc' = "reapplied"
    /\ UNCHANGED <<columns, sorted_idx, groups, exercise_name_, exercise_df, scanVars>>
    /\ UNCHANGED besidesPipe

-----------------------------------------------------------------------------
(* data/processor.py: identify_plateaus                                    *)

MaxDates == 5           \* workout dates of the exercise
MaxWindow == 3          \* the argument `window` is 1 .. MaxWindow

\* The weights (kg) of the sets of the exercise on one date.
DaySets == {<<100>>, <<105>>, <<95>>, <<95, 100>>}

\* The rows of the exercise, date by date; the k-th workout date is day k.
Histories == UNION {[1 .. n -> DaySets] : n \in 0 .. MaxDates}

\* 438: `plateau_start = None`
NoDate == 0

RECURSIVE SumLen(_)
SumLen(days) == IF days = <<>> THEN 0 ELSE Len(Head(days)) + SumLen(Tail(days))

\* 427: len(exercise_df), the number of rows (sets) of the exercise
RowCount(days) == SumLen(days)

MaxOf(ws) == CHOOSE m \in Range(ws) : \A v \in Range(ws) : v <= m

\* 431-434: sort by date, then groupby('Date')['Weight (kg)'].max().reset_index()
GroupByDateMax(days) ==
    [k \in 1 .. Len(days) |-> [Date |-> k, Weight |-> MaxOf(days[k])]]

PlatIdle ==
    /\ window = 0 /\ history = <<>> /\ grouped = <<>> /\ ppc = "idle" /\ loop_i = 0
    /\ plateaus = <<>> /\ plateau_start = NoDate /\ current_weight = 0
    /\ same_weight_count = 0

InitPlateaus ==
    /\ window \in 1 .. MaxWindow
    /\ history \in Histories
    /\ grouped = <<>> /\ ppc = "called" /\ loop_i = 0
    /\ plateaus = <<>> /\ plateau_start = NoDate /\ current_weight = 0
    /\ same_weight_count = 0

\* 425-428: fewer rows than `window`: return []
TooFewRows ==
    /\ ppc = "called"
    /\ RowCount(history) < window
    /\ plateaus' = <<>>
    /\ ppc' = "returned"
    /\ UNCHANGED <<window, history, grouped, loop_i, plateau_start, current_weight,
                   same_weight_count>>
    /\ UNCHANGED besidesPlat

\* 431-440: sort, group, and the state before the loop
StartPlateaus ==
    /\ ppc = "called"
    /\ RowCount(history) >= window
    /\ grouped' = GroupByDateMax(history)
    /\ plateaus' = <<>>
    /\ plateau_start' = NoDate
    /\ current_weight' = GroupByDateMax(history)[1].Weight
    /\ same_weight_count' = 1
    /\ loop_i' = 1
    /\ ppc' = "loop"
    /\ UNCHANGED <<window, history>>
    /\ UNCHANGED besidesPlat

\* 454-459 and 467-472: the plateau appended
PlateauRecord(end) ==
    [start_date |-> plateau_start, end_date |-> end,
     duration |-> same_weight_count, weight |-> current_weight]

\* 453, 466: `same_weight_count >= window`
ReachedWindow(count) == count >= window

\* 442-450: one iteration whose weight is the same or lower
\* (grouped[loop_i + 1] is .iloc[i], grouped[loop_i] is .iloc[i-1])
SameOrLower ==
    /\ ppc = "loop"
    /\ loop_i < Len(grouped)
    /\ grouped[loop_i + 1].Weight <= current_weight
    /\ plateau_start' = IF plateau_start = NoDate THEN grouped[loop_i].Date
                        ELSE plateau_start
    /\ same_weight_count' = same_weight_count + 1
    /\ loop_i' = loop_i + 1
    /\ UNCHANGED <<window, history, grouped, ppc, plateaus, current_weight>>
    /\ UNCHANGED besidesPlat

\* 442-447, 451-463: one iteration whose weight is higher
Higher ==
    /\ ppc = "loop"
    /\ loop_i < Len(grouped)
    /\ ~(grouped[loop_i + 1].Weight <= current_weight)
    /\ plateaus' = IF ReachedWindow(same_weight_count)
                   THEN Append(plateaus, PlateauRecord(grouped[loop_i].Date))
                   ELSE plateaus
    /\ plateau_start' = NoDate
    /\ same_weight_count' = 1
    /\ current_weight' = grouped[loop_i + 1].Weight
    /\ loop_i' = loop_i + 1
    /\ UNCHANGED <<window, history, grouped, ppc>>
    /\ UNCHANGED besidesPlat

\* 465-474: after the loop
EndOnPlateau ==
    /\ ppc = "loop"
    /\ loop_i = Len(grouped)
    /\ plateaus' = IF ReachedWindow(same_weight_count)
                   THEN Append(plateaus, PlateauRecord(grouped[Len(grouped)].Date))
                   ELSE plateaus
    /\ ppc' = "returned"
    /\ UNCHANGED <<window, history, grouped, loop_i, plateau_start, current_weight,
                   same_weight_count>>
    /\ UNCHANGED besidesPlat


-----------------------------------------------------------------------------
(* analysis/exercise.py: analyze_exercise_progression, and                 *)
(* data/processor.py: calculate_progression_metrics: percent changes       *)

MaxValue == 2           \* aggregated values 0 .. MaxValue

\* The columns whose first-to-last change both functions compute.
ChangeColumns == {"Weight (kg)", "Reps", "Volume", "1RM"}

\* One aggregated row: per column, the value of a date or of a period.
AggregatedRows == [ChangeColumns -> 0 .. MaxValue]

\* The aggregate has one row, or a first and a last row (rows between the two
\* are not read by the computation).
Progressions == {<<r>> : r \in AggregatedRows} \cup (AggregatedRows \X AggregatedRows)

\* exercise.py 110-128
change_pct(first, last) ==
    IF first > 0 THEN Rat((last - first) * 100, first) ELSE Q(0)

\* processor.py 314-317
change_percent(first, last) ==
    IF first > 0 THEN Rat((last - first) * 100, first)
    ELSE IF last = 0 THEN Q(0) ELSE Q(100)

PctIdle ==
    /\ change_fn = "" /\ progression = <<>> /\ changes = <<>> /\ change_pc = "idle"

InitChanges ==
    /\ change_fn \in {"analyze_exercise_progression", "calculate_progression_metrics"}
    /\ progression \in Progressions
    /\ changes = <<>>
    /\ change_pc = "aggregated"

\* exercise.py 88, processor.py 303: one row only, no change is computed
SingleRow ==
    /\ change_pc = "aggregated"
    /\ ~(Len(progression) > 1)
    /\ change_pc' = "returned"
    /\ UNCHANGED <<change_fn, progression, changes>>
    /\ UNCHANGED besidesPct

\* exercise.py 88-128
AnalyzeChanges ==
    /\ change_pc = "aggregated"
    /\ change_fn = "analyze_exercise_progression"
    /\ Len(progression) > 1
    /\ LET first == progression[1]
           last == progression[Len(progression)]
       IN  changes' = [col \in ChangeColumns |-> change_pct(first[col], last[col])]
    /\ change_pc' = "returned"
    /\ UNCHANGED <<change_fn, progression>>
    /\ UNCHANGED besidesPct

\* processor.py 303-321
MetricsChanges ==
    /\ change_pc = "aggregated"
    /\ change_fn = "calculate_progression_metrics"
    /\ Len(progression) > 1
    /\ LET first_values == progression[1]
           last_values == progression[Len(progression)]
       IN  changes' = [col \in ChangeColumns |->
                          change_percent(first_values[col], last_values[col])]
    /\ change_pc' = "returned"
    /\ UNCHANGED <<change_fn, progression>>
    /\ UNCHANGED besidesPct

-----------------------------------------------------------------------------
(* analysis/exercise.py: find_most_improved_exercises                      *)

MaxSets == 4            \* rows of the DataFrame handed to the ranking

\* An enriched row, as preprocess_data leaves it.
EnrichedRow(e, g, d, w, r) ==
    [ExerciseName |-> e, MuscleGroup |-> g, Date |-> d, Weight |-> w, Reps |-> r,
     Volume |-> w * r, OneRM |-> calculate_1rm(w, r)]

\* The rows a DataFrame is made of: two dates, two exercises.
RankRows ==
    <<EnrichedRow("Bench Press", "Chest", 1, 60, 5),
      EnrichedRow("Bench Press", "Chest", 1, 65, 5),
      EnrichedRow("Bench Press", "Chest", 8, 60, 5),
      EnrichedRow("Bench Press", "Chest", 8, 65, 5),
      EnrichedRow("Pull Up", "Back", 1, 0, 8),
      EnrichedRow("Pull Up", "Back", 1, 20, 5),
      EnrichedRow("Pull Up", "Back", 8, 0, 8),
      EnrichedRow("Pull Up", "Back", 8, 20, 6)>>

\* DataFrames of up to MaxSets rows. The function reads the rows through
\* value_counts, a filter by name and a groupby on Date, none of which
\* depends on the order of the rows, so the rows are listed in one order.
RankDatasets ==
    {[k \in 1 .. Len(ix) |-> RankRows[ix[k]]] :
        ix \in {jx \in UNION {[1 .. n -> 1 .. Len(RankRows)] : n \in 0 .. MaxSets} :
                   \A k \in 1 .. Len(jx) - 1 : jx[k] <= jx[k + 1]}}

TopNs == 0 .. 2
MinOccurrences == 1 .. 3

RatAdd(a, b) == Rat(Numer(a) * Denom(b) + Numer(b) * Denom(a), Denom(a) * Denom(b))
RatSub(a, b) == Rat(Numer(a) * Denom(b) - Numer(b) * Denom(a), Denom(a) * Denom(b))
RatDiv(a, b) == Rat(Numer(a) * Denom(b), Denom(a) * Numer(b))
RatMul(a, b) == Rat(Numer(a) * Numer(b), Denom(a) * Denom(b))

\* 238: df['Exercise Name'].value_counts(), the number of rows of a name
value_counts(rows, e) == Cardinality(Labels(rows, e))

\* 239: the names with enough rows, in the order value_counts lists them:
\* by falling count, names of equal count in an order pandas chooses.
FrequentOrders(rows, min) ==
    LET names == {e \in ExerciseNamesOf(rows) : value_counts(rows, e) >= min}
    IN  {order \in [1 .. Cardinality(names) -> names] :
            /\ \A a, b \in 1 .. Cardinality(names) : a # b => order[a] # order[b]
            /\ \A a, b \in 1 .. Cardinality(names) :
                  a < b => value_counts(rows, order[a]) >= value_counts(rows, order[b])}

DatesOf(rows, e) == {rows[i].Date : i \in Labels(rows, e)}

\* The dates of a set, ascending, as groupby yields them.
RECURSIVE Ascending(_)
Ascending(S) ==
    IF S = {} THEN <<>>
    ELSE LET least == CHOOSE m \in S : \A n \in S : m <= n
         IN  <<least>> \o Ascending(S \ {least})

RatMax(S) == CHOOSE m \in S : \A v \in S : GE(m, v)

\* The sum of Volume over the rows of the labels S.
RECURSIVE VolumeSum(_, _)
VolumeSum(rows, S) ==
    IF S = {} THEN 0
    ELSE LET any == CHOOSE i \in S : TRUE
         IN  rows[any].Volume + VolumeSum(rows, S \ {any})

\* 248-252: groupby('Date').agg(max, sum, max).reset_index() on the rows of e
GroupedByDate(rows, e) ==
    LET dates == Ascending(DatesOf(rows, e))
        on(d) == {i \in Labels(rows, e) : rows[i].Date = d}
    IN  [k \in 1 .. Len(dates) |->
            [Date |-> dates[k],
             Weight |-> MaxOf([i \in 1 .. Len(rows) |->
                                  IF i \in on(dates[k]) THEN rows[i].Weight ELSE 0]),
             Volume |-> VolumeSum(rows, on(dates[k])),
             OneRM |-> RatMax({rows[i].OneRM : i \in on(dates[k])})]]

\* 262-275: one percent change
improvement_pct(first, last) ==
    IF GT(first, Q(0)) THEN RatMul(RatDiv(RatSub(last, first), first), Q(100))
    ELSE Q(0)

\* 257-290: the entry appended for an exercise
Improvement(rows, exercise) ==
    LET by_date == GroupedByDate(rows, exercise)
        first_values == by_date[1]
        last_values == by_date[Len(by_date)]
        weight_change == improvement_pct(Q(first_values.Weight), Q(last_values.Weight))
        volume_change == improvement_pct(Q(first_values.Volume), Q(last_values.Volume))
        one_rm_change == improvement_pct(first_values.OneRM, last_values.OneRM)
    IN  [exercise |-> exercise,
         muscle_group |-> rows[CHOOSE i \in Labels(rows, exercise) :
                                  \A j \in Labels(rows, exercise) : i <= j].MuscleGroup,
         occurrences |-> Len(by_date),
         weight_change_pct |-> weight_change,
         volume_change_pct |-> volume_change,
         one_rm_change_pct |-> one_rm_change,
         overall_improvement |->
             RatDiv(RatAdd(RatAdd(weight_change, volume_change), one_rm_change), Q(3)),
         first_date |-> first_values.Date,
         last_date |-> last_values.Date]

\* A plausible slip: the list sorted ascending.
SortedInto_ascending(entry, sorted) ==
    LET before == {k \in 1 .. Len(sorted) :
                      GE(entry.overall_improvement, sorted[k].overall_improvement)}
    IN  [k \in 1 .. Len(sorted) + 1 |->
            IF k <= Cardinality(before) THEN sorted[k]
            ELSE IF k = Cardinality(before) + 1 THEN entry
            ELSE sorted[k - 1]]

\* 293: list.sort(key=overall_improvement, reverse=True) is stable: an entry
\* goes behind the entries whose key is greater or equal.
SortedInto(entry, sorted) ==
    LET before == {k \in 1 .. Len(sorted) :
                      GE(sorted[k].overall_improvement, entry.overall_improvement)}
    IN  [k \in 1 .. Len(sorted) + 1 |->
            IF k <= Cardinality(before) THEN sorted[k]
            ELSE IF k = Cardinality(before) + 1 THEN entry
            ELSE sorted[k - 1]]

RECURSIVE SortByImprovement(_)
SortByImprovement(entries) ==
    IF entries = <<>> THEN <<>>
    ELSE SortedInto(entries[Len(entries)],
                    SortByImprovement(SubSeq(entries, 1, Len(entries) - 1)))

RankIdle ==
    /\ rank_df = <<>> /\ top_n = 0 /\ min_occurrences = 0
    /\ frequent_exercises = <<>> /\ improvements = <<>> /\ ranked = <<>>
    /\ rank_pc = "idle"

InitRank ==
    /\ rank_df \in RankDatasets
    /\ top_n \in TopNs
    /\ min_occurrences \in MinOccurrences
    /\ frequent_exercises = <<>> /\ improvements = <<>> /\ ranked = <<>>
    /\ rank_pc = "called"

\* 238-242
CountExercises ==
    /\ rank_pc = "called"
    /\ frequent_exercises' \in FrequentOrders(rank_df, min_occurrences)
    /\ improvements' = <<>>
    /\ rank_pc' = "loop"
    /\ UNCHANGED <<rank_df, top_n, min_occurrences, ranked>>
    /\ UNCHANGED besidesRank

\* 244-255: an exercise seen on fewer than two dates is passed over
OneDateOnly ==
    /\ rank_pc = "loop"
    /\ frequent_exercises # <<>>
    /\ Len(GroupedByDate(rank_df, Head(frequent_exercises))) < 2
    /\ frequent_exercises' = Tail(frequent_exercises)
    /\ UNCHANGED <<rank_df, top_n, min_occurrences, improvements, ranked, rank_pc>>
    /\ UNCHANGED besidesRank

\* 244-290
AppendImprovement ==
    /\ rank_pc = "loop"
    /\ frequent_exercises # <<>>
    /\ ~(Len(GroupedByDate(rank_df, Head(frequent_exercises))) < 2)
    /\ improvements' = Append(improvements, Improvement(rank_df, Head(frequent_exercises)))
    /\ frequent_exercises' = Tail(frequent_exercises)
    /\ UNCHANGED <<rank_df, top_n, min_occurrences, ranked, rank_pc>>
    /\ UNCHANGED besidesRank

\* 293-295: sort in place, return improvements[:top_n]
SortAndCut ==
    /\ rank_pc = "loop"
    /\ frequent_exercises = <<>>
    /\ improvements' = SortByImprovement(improvements)
    /\ ranked' = SubSeq(SortByImprovement(improvements), 1,
                        IF top_n < Len(improvements) THEN top_n ELSE Len(improvements))
    /\ rank_pc' = "returned"
    /\ UNCHANGED <<rank_df, top_n, min_occurrences, frequent_exercises>>
    /\ UNCHANGED besidesRank

-----------------------------------------------------------------------------
(* data/processor.py: calculate_workout_balance                            *)

\* The rows of the DataFrame by muscle group: the Volume of each row of the
\* group (no row: the group is not a key of the groupby).
GroupRows ==
    [Chest : {<<>>, <<100>>, <<160>>},
     Shoulders : {<<>>, <<50>>},
     Arms : {<<>>, <<40>>},
     Back : {<<>>, <<60>>, <<100>>, <<200, 100>>},
     Legs : {<<>>, <<0>>, <<20>>, <<200>>},
     Core : {<<>>, <<5>>, <<50>>}]

MuscleGroups == {"Chest", "Shoulders", "Arms", "Back", "Legs", "Core"}

\* The keys of a groupby, in their sorted order.
GroupOrder == <<"Arms", "Back", "Chest", "Core", "Legs", "Shoulders">>

RECURSIVE SeqSum(_)
SeqSum(s) == IF s = <<>> THEN 0 ELSE Head(s) + SeqSum(Tail(s))

\* 580: df.groupby('Muscle Group')['Volume'].sum()
GroupbySum(rows_of) ==
    [g \in {h \in MuscleGroups : rows_of[h] # <<>>} |-> SeqSum(rows_of[g])]

\* Series.get(key, 0)
Get(series, key) == IF key \in DOMAIN series THEN series[key] ELSE 0

RECURSIVE SumOfSeries(_, _)
SumOfSeries(series, keys) ==
    IF keys = {} THEN 0
    ELSE LET any == CHOOSE k \in keys : TRUE
         IN  series[any] + SumOfSeries(series, keys \ {any})

\* float('inf'): greater than every number under GT
Infinity == <<1, 0>>

\* a / b if b > 0 else float('inf')
RatioOrInf(a, b) == IF GT(b, Q(0)) THEN RatDiv(a, b) ELSE Infinity

\* A plausible slip: the ratio compared with 1.2.
PushDominant_lower(ratio) == GT(ratio, <<12, 10>>)

\* 604: push_pull_ratio > 1.3
PushDominant(ratio) == GT(ratio, <<13, 10>>)

\* 604-617
PushPullRecommendations(ratio) ==
    IF PushDominant(ratio)
    THEN <<[issue |-> "Push/Pull Imbalance",
            severity |-> IF GT(<<16, 10>>, ratio) THEN "moderate" ELSE "high"]>>
    ELSE IF GT(<<7, 10>>, ratio)
    THEN <<[issue |-> "Pull/Push Imbalance",
            severity |-> IF GT(ratio, <<4, 10>>) THEN "moderate" ELSE "high"]>>
    ELSE <<>>

\* 619-632
UpperLowerRecommendations(ratio) ==
    IF GT(ratio, Q(2))
    THEN <<[issue |-> "Upper/Lower Imbalance",
            severity |-> IF GT(Q(3), ratio) THEN "moderate" ELSE "high"]>>
    ELSE IF GT(<<5, 10>>, ratio)
    THEN <<[issue |-> "Lower/Upper Imbalance",
            severity |-> IF GT(ratio, <<3, 10>>) THEN "moderate" ELSE "high"]>>
    ELSE <<>>

\* 634-640
CoreRecommendations(percentage) ==
    IF "Core" \in DOMAIN percentage /\ GT(Q(5), percentage["Core"])
    THEN <<[issue |-> "Low Core Training", severity |-> "low"]>>
    ELSE <<>>

\* The name of the issue f'Low {muscle} Volume'.
LowVolumeIssue ==
    [Shoulders |-> "Low Shoulders Volume", Back |-> "Low Back Volume",
     Legs |-> "Low Legs Volume"]

\* 643-650: the items of muscle_percentage from the k-th key on
RECURSIVE LowVolumeRecommendations(_, _)
LowVolumeRecommendations(percentage, k) ==
    IF k > Len(GroupOrder) THEN <<>>
    ELSE LET muscle == GroupOrder[k]
             rest == LowVolumeRecommendations(percentage, k + 1)
         IN  IF /\ muscle \in DOMAIN percentage
                /\ muscle \in {"Shoulders", "Back", "Legs"}
                /\ GT(Q(10), percentage[muscle])
             THEN <<[issue |-> LowVolumeIssue[muscle], severity |-> "moderate"]>> \o rest
             ELSE rest

BalIdle ==
    /\ balance_df = <<>> /\ muscle_volume = <<>> /\ muscle_percentage = <<>>
    /\ push_muscles = Q(0) /\ pull_muscles = Q(0)
    /\ push_pull_ratio = Q(0) /\ upper_lower_ratio = Q(0) /\ core_ratio = Q(0)
    /\ recommendations = <<>> /\ is_balanced = FALSE /\ bal_pc = "idle"

InitBalance ==
    /\ balance_df \in GroupRows
    /\ muscle_volume = <<>> /\ muscle_percentage = <<>>
    /\ push_muscles = Q(0) /\ pull_muscles = Q(0)
    /\ push_pull_ratio = Q(0) /\ upper_lower_ratio = Q(0) /\ core_ratio = Q(0)
    /\ recommendations = <<>> /\ is_balanced = FALSE /\ bal_pc = "called"

\* 580-584
VolumeShares ==
    /\ bal_pc = "called"
    /\ LET volume == GroupbySum(balance_df)
           total_volume == SumOfSeries(volume, DOMAIN volume)
       IN  /\ muscle_volume' = volume
           /\ muscle_percentage' =
                 IF total_volume > 0
                 THEN [g \in DOMAIN volume |-> Rat(volume[g] * 100, total_volume)]
                 ELSE <<>>
    /\ bal_pc' = "shares"
    /\ UNCHANGED <<balance_df, push_muscles, pull_muscles, push_pull_ratio,
                   upper_lower_ratio, core_ratio, recommendations, is_balanced>>
    /\ UNCHANGED besidesBal

\* 587-659
Recommend ==
    /\ bal_pc = "shares"
    /\ LET total_volume == SumOfSeries(muscle_volume, DOMAIN muscle_volume)
           push == Rat(10 * Get(muscle_volume, "Chest")
                         + 10 * Get(muscle_volume, "Shoulders")
                         + 6 * Get(muscle_volume, "Arms"), 10)
           pull == Rat(10 * Get(muscle_volume, "Back")
                         + 4 * Get(muscle_volume, "Arms"), 10)
           push_pull == RatioOrInf(push, pull)
           upper_muscles == RatAdd(push, pull)
           lower_muscles == Q(Get(muscle_volume, "Legs"))
           upper_lower == RatioOrInf(upper_muscles, lower_muscles)
           core_muscles == Get(muscle_volume, "Core")
           found == PushPullRecommendations(push_pull)
                        \o UpperLowerRecommendations(upper_lower)
                        \o CoreRecommendations(muscle_percentage)
                        \o LowVolumeRecommendations(muscle_percentage, 1)
       IN  /\ push_muscles' = push
           /\ pull_muscles' = pull
           /\ push_pull_ratio' = push_pull
           /\ upper_lower_ratio' = upper_lower
           /\ core_ratio' = RatioOrInf(Q(core_muscles), Q(total_volume - core_muscles))
           /\ recommendations' = found
           /\ is_balanced' = (Len(found) = 0)
    /\ bal_pc' = "returned"
    /\ UNCHANGED <<balance_df, muscle_volume, muscle_percentage>>
    /\ UNCHANGED besidesBal

-----------------------------------------------------------------------------
(* old_monolith/records_registry.py: RecordsRegistry                       *)

MaxRegRows == 2         \* rows of a dataset handed to the registry
MaxUpdates == 2         \* calls of update_from_dataframe

\* The rows datasets are made of, enriched as preprocess_data leaves them.
RegRows ==
    <<EnrichedRow("Bench Press", "Chest", 1, 60, 5),
      EnrichedRow("Bench Press", "Chest", 8, 65, 5),
      EnrichedRow("Incline Bench Press", "Chest", 8, 40, 8),
      EnrichedRow("Pull Up", "Back", 15, 2, 37)>>

EnrichedColumns ==
    {"Date", "Exercise Name", "Weight (kg)", "Reps", "Muscle Group", "Volume", "1RM"}

\* Datasets of one to MaxRegRows rows, rows in the order of RegRows (the
\* order of the rows decides only which of two equal maxima idxmax picks).
RegDatasets ==
    {[columns |-> EnrichedColumns, rows |-> [k \in 1 .. Len(ix) |-> RegRows[ix[k]]]] :
        ix \in {jx \in UNION {[1 .. n -> 1 .. Len(RegRows)] : n \in 1 .. MaxRegRows} :
                   \A k \in 1 .. Len(jx) - 1 : jx[k] <= jx[k + 1]}}

\* groupby yields its keys sorted.
RegExerciseOrder == <<"Bench Press", "Incline Bench Press", "Pull Up">>
RegMuscleOrder == <<"Back", "Chest">>

\* The names as characters, for the substring test of the timeline.
NameChars ==
    [e \in {"Bench Press", "Incline Bench Press", "Pull Up"} |->
        CASE e = "Bench Press" -> <<"B", "e", "n", "c", "h", " ", "P", "r", "e", "s", "s">>
          [] e = "Incline Bench Press" ->
                <<"I", "n", "c", "l", "i", "n", "e", " ",
                  "B", "e", "n", "c", "h", " ", "P", "r", "e", "s", "s">>
          [] e = "Pull Up" -> <<"P", "u", "l", "l", " ", "U", "p">>]

\* 37-50: _create_empty_registry (None is NoDate for a date, "" for a name)
EmptyRegistry ==
    [exercises |-> <<>>,
     muscle_groups |-> <<>>,
     overall |->
        [total_volume |-> [value |-> Q(0), date |-> NoDate],
         max_weight |-> [value |-> Q(0), date |-> NoDate, exercise |-> ""],
         max_reps |-> [value |-> Q(0), date |-> NoDate, exercise |-> ""],
         max_volume_set |-> [value |-> Q(0), date |-> NoDate, exercise |-> ""],
         max_1rm |-> [value |-> Q(0), date |-> NoDate, exercise |-> ""]],
     last_updated |-> 0]

\* 105-112
NewExercise ==
    [max_weight |-> [value |-> Q(0), date |-> NoDate],
     max_reps |-> [value |-> Q(0), date |-> NoDate],
     max_volume_set |-> [value |-> Q(0), date |-> NoDate],
     max_volume_workout |-> [value |-> Q(0), date |-> NoDate],
     max_1rm |-> [value |-> Q(0), date |-> NoDate],
     history |-> <<>>]

\* 222-227
NewMuscleGroup ==
    [max_volume_workout |-> [value |-> Q(0), date |-> NoDate],
     max_weight |-> [value |-> Q(0), date |-> NoDate, exercise |-> ""],
     max_1rm |-> [value |-> Q(0), date |-> NoDate, exercise |-> ""],
     history |-> <<>>]

\* 80: the 1RM the registry writes into the DataFrame
Registry1RM(w, r) == IF r > 0 /\ r < 37 THEN Rat(w * 36, 37 - r) ELSE Q(0)

\* 76-82: df['Volume'] and df['1RM'] are assigned on the caller's DataFrame
WithVolumeAnd1RM(frame) ==
    [columns |-> frame.columns \cup {"Volume", "1RM"},
     rows |-> [k \in 1 .. Len(frame.rows) |->
                  [frame.rows[k] EXCEPT
                      !.Volume = frame.rows[k].Weight * frame.rows[k].Reps,
                      !.OneRM = Registry1RM(frame.rows[k].Weight, frame.rows[k].Reps)]]]

\* The rows of a group of a groupby, in their order.
RowsOfExercise(rows, e) ==
    LET keep(r) == r.ExerciseName = e IN SelectSeq(rows, keep)
RowsOfMuscle(rows, m) ==
    LET keep(r) == r.MuscleGroup = m IN SelectSeq(rows, keep)

\* data.loc[data[col].idxmax()]: the first row holding the maximum
MaxWeightRow(data) ==
    data[Least({k \in 1 .. Len(data) : \A j \in 1 .. Len(data) :
                   data[k].Weight >= data[j].Weight})]
MaxRepsRow(data) ==
    data[Least({k \in 1 .. Len(data) : \A j \in 1 .. Len(data) :
                   data[k].Reps >= data[j].Reps})]
MaxVolumeRow(data) ==
    data[Least({k \in 1 .. Len(data) : \A j \in 1 .. Len(data) :
                   data[k].Volume >= data[j].Volume})]
Max1RMRow(data) ==
    data[Least({k \in 1 .. Len(data) : \A j \in 1 .. Len(data) :
                   GE(data[k].OneRM, data[j].OneRM)})]

\* data.groupby(date)['Volume'].sum(): date -> the volume of the workout
WorkoutVolumes(data) ==
    [d \in {data[k].Date : k \in 1 .. Len(data)} |->
        VolumeSum(data, {k \in 1 .. Len(data) : data[k].Date = d})]

\* workout_volumes.idxmax(), workout_volumes.max()
MaxWorkoutDate(volumes) ==
    Least({d \in DOMAIN volumes : \A e \in DOMAIN volumes : volumes[d] >= volumes[e]})

\* A plausible slip: a candidate equal to the stored value is taken as well.
Beats_ties(candidate, stored) == GE(candidate, stored.value)

\* `candidate > stored["value"]`
Beats(candidate, stored) == GT(candidate, stored.value)


\* f"{record_value:.1f}": the value in tenths, halves rounded to even
Tenths(v) ==
    LET n == Numer(v) * 10
        q == n \div Denom(v)
        r == n % Denom(v)
    IN  IF 2 * r > Denom(v) THEN q + 1
        ELSE IF 2 * r = Denom(v) THEN q + (q % 2)
        ELSE q

\* record_type.replace("_", " ").title()
RecordName ==
    [max_weight |-> "Max Weight", max_reps |-> "Max Reps",
     max_volume_set |-> "Max Volume Set", max_volume_workout |-> "Max Volume Workout",
     max_1rm |-> "Max 1Rm"]

\* 210-214, 275-283: the entry, f"{record_name}: {record_value:.1f}" with
\* f" ({exercise})" behind it when the record has an exercise
RecordEntry(record_type, record) ==
    IF "exercise" \in DOMAIN record
    THEN [record |-> RecordName[record_type], value |-> Tenths(record.value),
          exercise |-> record.exercise]
    ELSE [record |-> RecordName[record_type], value |-> Tenths(record.value)]

\* A plausible slip: the entry appended whether the list holds it or not.
AddEntry_always(entries, entry) == Append(entries, entry)

\* 215-216, 286-287: only add if not already in history
AddEntry(entries, entry) ==
    IF entry \in Range(entries) THEN entries ELSE Append(entries, entry)

\* 208-216, 273-287: the records set on `date`, from the k-th type on
RECURSIVE AddEntries(_, _, _, _, _)
AddEntries(entries, scope, record_types, k, date) ==
    IF k > Len(record_types) THEN entries
    ELSE IF scope[record_types[k]].date = date
         THEN AddEntries(AddEntry(entries, RecordEntry(record_types[k], scope[record_types[k]])),
                         scope, record_types, k + 1, date)
         ELSE AddEntries(entries, scope, record_types, k + 1, date)

\* 197-216, 262-287: the history of a scope after its records are updated
UpdatedHistory(scope, record_types) ==
    LET dates_with_records ==
            {scope[record_types[k]].date : k \in 1 .. Len(record_types)} \ {NoDate}
    IN  [date \in DOMAIN scope.history \cup dates_with_records |->
            IF date \in dates_with_records
            THEN AddEntries(IF date \in DOMAIN scope.history
                            THEN scope.history[date] ELSE <<>>,
                            scope, record_types, 1, date)
            ELSE scope.history[date]]

\* 199, 208
ExerciseHistoryTypes == <<"max_weight", "max_reps", "max_volume_set", "max_1rm">>
\* 264, 273
MuscleHistoryTypes == <<"max_weight", "max_volume_workout", "max_1rm">>

\* 118-216: _update_exercise_records on the stored records of an exercise
UpdatedExercise(stored, data) ==
    LET max_weight_row == MaxWeightRow(data)
        max_reps_row == MaxRepsRow(data)
        max_vol_row == MaxVolumeRow(data)
        max_1rm_row == Max1RMRow(data)
        workout_volumes == WorkoutVolumes(data)
        max_workout_vol_date == MaxWorkoutDate(workout_volumes)
        scope ==
            [stored EXCEPT
                !.max_weight =
                    IF Beats(Q(max_weight_row.Weight), @)
                    THEN [value |-> Q(max_weight_row.Weight), date |-> max_weight_row.Date,
                          reps |-> max_weight_row.Reps]
                    ELSE @,
                !.max_reps =
                    IF Beats(Q(max_reps_row.Reps), @)
                    THEN [value |-> Q(max_reps_row.Reps), date |-> max_reps_row.Date,
                          weight |-> max_reps_row.Weight]
                    ELSE @,
                !.max_volume_set =
                    IF Beats(Q(max_vol_row.Volume), @)
                    THEN [value |-> Q(max_vol_row.Volume), date |-> max_vol_row.Date,
                          weight |-> max_vol_row.Weight, reps |-> max_vol_row.Reps]
                    ELSE @,
                !.max_volume_workout =
                    IF Beats(Q(workout_volumes[max_workout_vol_date]), @)
                    THEN [value |-> Q(workout_volumes[max_workout_vol_date]),
                          date |-> max_workout_vol_date]
                    ELSE @,
                !.max_1rm =
                    IF Beats(max_1rm_row.OneRM, @)
                    THEN [value |-> max_1rm_row.OneRM, date |-> max_1rm_row.Date,
                          weight |-> max_1rm_row.Weight, reps |-> max_1rm_row.Reps]
                    ELSE @]
    IN  [scope EXCEPT !.history = UpdatedHistory(scope, ExerciseHistoryTypes)]

\* 229-287: _update_muscle_group_records on the stored records of a group
UpdatedMuscleGroup(stored, data) ==
    LET max_weight_row == MaxWeightRow(data)
        max_1rm_row == Max1RMRow(data)
        workout_volumes == WorkoutVolumes(data)
        max_workout_vol_date == MaxWorkoutDate(workout_volumes)
        scope ==
            [stored EXCEPT
                !.max_weight =
                    IF Beats(Q(max_weight_row.Weight), @)
                    THEN [value |-> Q(max_weight_row.Weight), date |-> max_weight_row.Date,
                          exercise |-> max_weight_row.ExerciseName,
                          reps |-> max_weight_row.Reps]
                    ELSE @,
                !.max_volume_workout =
                    IF Beats(Q(workout_volumes[max_workout_vol_date]), @)
                    THEN [value |-> Q(workout_volumes[max_workout_vol_date]),
                          date |-> max_workout_vol_date]
                    ELSE @,
                !.max_1rm =
                    IF Beats(max_1rm_row.OneRM, @)
                    THEN [value |-> max_1rm_row.OneRM, date |-> max_1rm_row.Date,
                          exercise |-> max_1rm_row.ExerciseName,
                          weight |-> max_1rm_row.Weight, reps |-> max_1rm_row.Reps]
                    ELSE @]
    IN  [scope EXCEPT !.history = UpdatedHistory(scope, MuscleHistoryTypes)]

\* 289-342: _update_overall_records
UpdatedOverall(stored, rows) ==
    LET workout_volumes == WorkoutVolumes(rows)
        max_workout_vol_date == MaxWorkoutDate(workout_volumes)
        max_weight_row == MaxWeightRow(rows)
        max_reps_row == MaxRepsRow(rows)
        max_vol_row == MaxVolumeRow(rows)
        max_1rm_row == Max1RMRow(rows)
    IN  [stored EXCEPT
            !.total_volume =
                IF Beats(Q(workout_volumes[max_workout_vol_date]), @)
                THEN [value |-> Q(workout_volumes[max_workout_vol_date]),
                      date |-> max_workout_vol_date]
                ELSE @,
            !.max_weight =
                IF Beats(Q(max_weight_row.Weight), @)
                THEN [value |-> Q(max_weight_row.Weight), date |-> max_weight_row.Date,
                      exercise |-> max_weight_row.ExerciseName,
                      reps |-> max_weight_row.Reps]
                ELSE @,
            !.max_reps =
                IF Beats(Q(max_reps_row.Reps), @)
                THEN [value |-> Q(max_reps_row.Reps), date |-> max_reps_row.Date,
                      exercise |-> max_reps_row.ExerciseName,
                      weight |-> max_reps_row.Weight]
                ELSE @,
            !.max_volume_set =
                IF Beats(Q(max_vol_row.Volume), @)
                THEN [value |-> Q(max_vol_row.Volume), date |-> max_vol_row.Date,
                      exercise |-> max_vol_row.ExerciseName,
                      weight |-> max_vol_row.Weight, reps |-> max_vol_row.Reps]
                ELSE @,
            !.max_1rm =
                IF Beats(max_1rm_row.OneRM, @)
                THEN [value |-> max_1rm_row.OneRM, date |-> max_1rm_row.Date,
                      exercise |-> max_1rm_row.ExerciseName,
                      weight |-> max_1rm_row.Weight, reps |-> max_1rm_row.Reps]
                ELSE @]


\* The keys of a dict after the keys of `sorted_keys` that occur in `present`
\* are inserted, in their order, where they are new.
RECURSIVE KeysAfter(_, _, _, _)
KeysAfter(keys, sorted_keys, present, k) ==
    IF k > Len(sorted_keys) THEN keys
    ELSE IF sorted_keys[k] \in present /\ sorted_keys[k] \notin Range(keys)
         THEN KeysAfter(Append(keys, sorted_keys[k]), sorted_keys, present, k + 1)
         ELSE KeysAfter(keys, sorted_keys, present, k + 1)

MuscleGroupsOf(rows) == {rows[k].MuscleGroup : k \in 1 .. Len(rows)}

\* 85-96: the registry after the three scopes are updated from the rows
UpdatedRecords(stored, rows, now) ==
    [exercises |->
        [e \in DOMAIN stored.exercises \cup ExerciseNamesOf(rows) |->
            IF e \in ExerciseNamesOf(rows)
            THEN UpdatedExercise(IF e \in DOMAIN stored.exercises
                                 THEN stored.exercises[e] ELSE NewExercise,
                                 RowsOfExercise(rows, e))
            ELSE stored.exercises[e]],
     muscle_groups |->
        [m \in DOMAIN stored.muscle_groups \cup MuscleGroupsOf(rows) |->
            IF m \in MuscleGroupsOf(rows)
            THEN UpdatedMuscleGroup(IF m \in DOMAIN stored.muscle_groups
                                    THEN stored.muscle_groups[m] ELSE NewMuscleGroup,
                                    RowsOfMuscle(rows, m))
            ELSE stored.muscle_groups[m]],
     overall |-> UpdatedOverall(stored.overall, rows),
     last_updated |-> now]

\* The file as _load_records finds it, and as save() leaves it.
Missing == [kind |-> "missing"]
NotJSON == [kind |-> "not json"]
Document(doc) == [kind |-> "json", document |-> doc]

\* A JSON document that is no registry: the empty object {}.
EmptyObject == <<>>

NoFrame == [columns |-> {}, rows |-> <<>>]
NoArgs == [muscle_group |-> "", limit |-> 0]

RegIdle ==
    /\ reg_file = Missing /\ records = <<>>
    /\ exercise_keys = <<>> /\ muscle_keys = <<>>
    /\ reg_df = NoFrame /\ given_df = NoFrame /\ applied = {} /\ updates = 0
    /\ timeline_args = NoArgs /\ timeline = <<>> /\ reg_pc = "idle"

InitRegistry ==
    /\ reg_file \in {Missing, NotJSON, Document(EmptyObject)}
    /\ records = <<>>
    /\ exercise_keys = <<>> /\ muscle_keys = <<>>
    /\ reg_df = NoFrame /\ given_df = NoFrame /\ applied = {} /\ updates = 0
    /\ timeline_args = NoArgs /\ timeline = <<>> /\ reg_pc = "start"

\* 14-35: __init__ and _load_records
Construct ==
    /\ reg_pc = "start"
    /\ records' = IF reg_file.kind = "json" THEN reg_file.document ELSE EmptyRegistry
    /\ reg_pc' = "ready"
    /\ UNCHANGED <<reg_file, exercise_keys, muscle_keys, reg_df, given_df, applied,
                   updates, timeline_args, timeline>>
    /\ UNCHANGED besidesReg

\* 57-99: update_from_dataframe
UpdateFromDataframe ==
    /\ reg_pc = "ready"
    /\ updates < MaxUpdates
    /\ "exercises" \in DOMAIN records
    /\ \E frame \in RegDatasets :
          LET df_after == WithVolumeAnd1RM(frame)
              updated == UpdatedRecords(records, df_after.rows, updates + 1)
          IN  /\ given_df' = frame
              /\ reg_df' = df_after
              /\ applied' = applied \cup {frame}
              /\ records' = updated
              /\ exercise_keys' = KeysAfter(exercise_keys, RegExerciseOrder,
                                            ExerciseNamesOf(frame.rows), 1)
              /\ muscle_keys' = KeysAfter(muscle_keys, RegMuscleOrder,
                                          MuscleGroupsOf(frame.rows), 1)
              /\ reg_file' = Document(updated)
    /\ updates' = updates + 1
    /\ reg_pc' = "ready"
    /\ UNCHANGED <<timeline_args, timeline>>
    /\ UNCHANGED besidesReg

\* 57-86, 104: on a document without the key 'exercises' the DataFrame gets
\* its columns and self.records["exercises"] raises KeyError
UpdateRaises ==
    /\ reg_pc = "ready"
    /\ updates < MaxUpdates
    /\ "exercises" \notin DOMAIN records
    /\ \E frame \in RegDatasets :
          /\ given_df' = frame
          /\ reg_df' = WithVolumeAnd1RM(frame)
          /\ applied' = applied \cup {frame}
    /\ updates' = updates + 1
    /\ reg_pc' = "raised"
    /\ UNCHANGED <<reg_file, records, exercise_keys, muscle_keys, timeline_args, timeline>>
    /\ UNCHANGED besidesReg


\* processor.py 357-362: exercise -> its largest 1RM, where that is positive
exercise_1rms(rows) ==
    LET largest_1rm(e) == RatMax({rows[k].OneRM : k \in {j \in 1 .. Len(rows) :
                                                      rows[j].ExerciseName = e}})
    IN  [e \in {n \in ExerciseNamesOf(rows) : GT(largest_1rm(n), Q(0))} |-> largest_1rm(e)]

\* processor.py 383-393
rep_range(n_reps) ==
    IF n_reps <= 5 THEN "Strength (1-5)"
    ELSE IF n_reps <= 8 THEN "Hypertrophy-Strength (6-8)"
    ELSE IF n_reps <= 12 THEN "Hypertrophy (9-12)"
    ELSE IF n_reps <= 15 THEN "Hypertrophy-Endurance (13-15)"
    ELSE "Endurance (16+)"

\* processor.py 365-371, 395: the columns calculate_intensity_metrics assigns
\* on the DataFrame it is given
WithIntensityColumns(frame) ==
    LET first_rms == exercise_1rms(frame.rows)
        percent(r) ==
            IF r.ExerciseName \in DOMAIN first_rms
            THEN RatMul(RatDiv(Q(r.Weight), first_rms[r.ExerciseName]), Q(100))
            ELSE Q(0)
    IN  IF DOMAIN first_rms # {}
        THEN [columns |-> frame.columns \cup {"Percent of 1RM", "Rep Range"},
              rows |-> [k \in 1 .. Len(frame.rows) |->
                           frame.rows[k] @@ [PercentOf1RM |-> percent(frame.rows[k]),
                                              RepRange |-> rep_range(frame.rows[k].Reps)]]]
        ELSE [columns |-> frame.columns \cup {"Rep Range"},
              rows |-> [k \in 1 .. Len(frame.rows) |->
                           frame.rows[k] @@ [RepRange |-> rep_range(frame.rows[k].Reps)]]]

\* processor.py 325-404: calculate_intensity_metrics on the DataFrame the
\* registry was updated from
IntensityMetrics ==
    /\ reg_pc = "ready"
    /\ updates >= 1
    /\ given_df' = reg_df
    /\ reg_df' = WithIntensityColumns(reg_df)
    /\ reg_pc' = "measured"
    /\ UNCHANGED <<reg_file, records, exercise_keys, muscle_keys, applied, updates,
                   timeline_args, timeline>>
    /\ UNCHANGED besidesReg

\* 432-433: the exercise names str(r) shows for the dicts r of a muscle group
NamesShown(data) ==
    ({data.max_weight.exercise, data.max_1rm.exercise}
        \cup UNION {{entry.exercise :
                        entry \in {x \in Range(data.history[d]) : "exercise" \in DOMAIN x}} :
                    d \in DOMAIN data.history})
    \ {""}

\* 432-433: the first muscle group one of whose dicts shows `ex`, or "Unknown"
ExMuscle(stored, m_keys, ex) ==
    LET hits == {i \in 1 .. Len(m_keys) :
                    \E n \in NamesShown(stored.muscle_groups[m_keys[i]]) :
                        Contains(NameChars[n], NameChars[ex])}
    IN  IF hits = {} THEN "Unknown" ELSE m_keys[Least(hits)]

\* 438-450, 462-473: an event for every entry of a history, `info` its other keys
RECURSIVE HistoryEvents(_, _, _)
HistoryEvents(entries_by_date, dates, info) ==
    IF dates = {} THEN <<>>
    ELSE LET date == Least(dates)
         IN  [k \in 1 .. Len(entries_by_date[date]) |->
                 info @@ [date |-> date, record |-> entries_by_date[date][k]]]
             \o HistoryEvents(entries_by_date, dates \ {date}, info)

\* 430-450: the events of the exercises from the k-th on
RECURSIVE ExerciseEvents(_, _, _, _, _)
ExerciseEvents(stored, e_keys, m_keys, group_filter, k) ==
    IF k > Len(e_keys) THEN <<>>
    ELSE LET ex == e_keys[k]
             ex_muscle == ExMuscle(stored, m_keys, ex)
             rest == ExerciseEvents(stored, e_keys, m_keys, group_filter, k + 1)
         IN  IF group_filter # "" /\ group_filter # "all" /\ ex_muscle # group_filter
             THEN rest
             ELSE HistoryEvents(stored.exercises[ex].history,
                                DOMAIN stored.exercises[ex].history,
                                [exercise |-> ex, muscle_group |-> ex_muscle,
                                 type |-> "exercise"])
                  \o rest

\* 459-473: the events of the muscle groups from the k-th on
RECURSIVE MuscleEvents(_, _, _)
MuscleEvents(stored, muscles, k) ==
    IF k > Len(muscles) THEN <<>>
    ELSE HistoryEvents(stored.muscle_groups[muscles[k]].history,
                       DOMAIN stored.muscle_groups[muscles[k]].history,
                       [muscle_group |-> muscles[k], type |-> "muscle_group"])
         \o MuscleEvents(stored, muscles, k + 1)

\* 476: timeline.sort(key=date, reverse=True); events of one date keep their order
RECURSIVE ByDateDescending(_, _)
ByDateDescending(events, dates) ==
    IF dates = {} THEN <<>>
    ELSE LET latest == CHOOSE d \in dates : \A e \in dates : e <= d
             on_latest(ev) == ev.date = latest
         IN  SelectSeq(events, on_latest) \o ByDateDescending(events, dates \ {latest})

\* 402-478: create_records_timeline(None, muscle_group, None, limit); None is ""
create_records_timeline(stored, e_keys, m_keys, group_filter, limit) ==
    LET muscles == IF group_filter = "" \/ group_filter = "all" THEN m_keys
                   ELSE IF group_filter \in DOMAIN stored.muscle_groups
                        THEN <<group_filter>> ELSE <<>>
        events == ExerciseEvents(stored, e_keys, m_keys, group_filter, 1)
                  \o MuscleEvents(stored, muscles, 1)
        sorted == ByDateDescending(events, {events[k].date : k \in 1 .. Len(events)})
    IN  IF limit > 0 THEN SubSeq(sorted, 1, IF limit < Len(sorted) THEN limit ELSE Len(sorted))
        ELSE sorted

\* The filters and limits the timeline is asked with.
MuscleFilters == {"", "all", "Chest", "Back"}
Limits == {0, 2}

\* 402-478: create_records_timeline
Timeline ==
    /\ reg_pc = "ready"
    /\ "exercises" \in DOMAIN records
    /\ \E group_filter \in MuscleFilters, limit \in Limits :
          /\ timeline_args' = [muscle_group |-> group_filter, limit |-> limit]
          /\ timeline' = create_records_timeline(records, exercise_keys, muscle_keys,
                                                 group_filter, limit)
    /\ reg_pc' = "listed"
    /\ UNCHANGED <<reg_file, records, exercise_keys, muscle_keys, reg_df, given_df,
                   applied, updates>>
    /\ UNCHANGED besidesReg

\* 422-426: on a document without the key 'exercises' the timeline raises
\* KeyError
TimelineRaises ==
    /\ reg_pc = "ready"
    /\ "exercises" \notin DOMAIN records
    /\ \E group_filter \in MuscleFilters, limit \in Limits :
          timeline_args' = [muscle_group |-> group_filter, limit |-> limit]
    /\ reg_pc' = "raised"
    /\ UNCHANGED <<reg_file, records, exercise_keys, muscle_keys, reg_df, given_df,
                   applied, updates, timeline>>
    /\ UNCHANGED besidesReg

-----------------------------------------------------------------------------
(* data/parser.py: parse_strong_csv on a file                               *)

MaxCsvRows == 1         \* rows of the CSV file

\* A cell as read_csv reads it: a number, a date, text that is neither, or
\* nothing (NaN).
NumberCell(n) == [kind |-> "number", value |-> n]
DateCell(d) == [kind |-> "date", value |-> d]
TextCell == [kind |-> "text", value |-> 0]
EmptyCell == [kind |-> "empty", value |-> 0]

\* 55-58, in the order of the list
RequiredColumnOrder ==
    <<"Date", "Workout Name", "Exercise Name", "Set Order", "Weight (kg)", "Reps">>

\* The headers a file may have: any of the required columns, with or without RPE.
CsvHeaders == SUBSET (RequiredColumns \cup {"RPE"})

CsvRowSpace ==
    [Date : {DateCell(1), TextCell},
     Weight : {NumberCell(60), TextCell, EmptyCell},
     Reps : {NumberCell(5), TextCell},
     RPE : {NumberCell(8), EmptyCell}]

CsvFiles ==
    [columns : CsvHeaders, rows : UNION {[1 .. n -> CsvRowSpace] : n \in 0 .. MaxCsvRows}]

\* A plausible slip: the message naming the first missing column only.
MissingColumns_first(header) ==
    LET lacking(col) == col \notin header
    IN  SubSeq(SelectSeq(RequiredColumnOrder, lacking), 1, 1)

\* 60-61: the required columns the header lacks, in the order of the list
MissingColumns(header) ==
    LET lacking(col) == col \notin header IN SelectSeq(RequiredColumnOrder, lacking)

\* 67: pd.to_datetime raises on a cell that is no date; NaN becomes NaT
DatesParse(rows) ==
    \A k \in 1 .. Len(rows) : rows[k].Date.kind \in {"date", "empty"}

\* 80-83: pd.to_numeric(errors='coerce') and fillna(0)
to_numeric_fillna(cell) == IF cell.kind = "number" THEN cell.value ELSE 0

\* 74-90: the numeric columns converted where the header has them, and Volume
NumericRow(header, row) ==
    LET w == to_numeric_fillna(row.Weight)
        r == to_numeric_fillna(row.Reps)
    IN  [Date |-> row.Date.value, Weight |-> w, Reps |-> r,
         RPE |-> IF "RPE" \in header THEN to_numeric_fillna(row.RPE) ELSE row.RPE,
         Volume |-> w * r]

NotParsed == [outcome |-> "none"]

CsvIdle ==
    /\ csv_file = [columns |-> {}, rows |-> <<>>]
    /\ parsed = NotParsed /\ csv_pc = "idle"

InitCsv ==
    /\ csv_file \in CsvFiles
    /\ parsed = NotParsed /\ csv_pc = "read"

\* 60-63, 114-116: the ValueError of the missing columns, raised again by the
\* handler of Exception with the message behind its own
RaiseMissingColumns ==
    /\ csv_pc = "read"
    /\ MissingColumns(csv_file.columns) # <<>>
    /\ parsed' = [outcome |-> "ValueError",
                  message |-> <<"Error processing CSV file: ",
                                "CSV is missing required columns: ",
                                MissingColumns(csv_file.columns)>>]
    /\ csv_pc' = "done"
    /\ UNCHANGED csv_file
    /\ UNCHANGED besidesCsv

\* 66-71, 114-116: the ValueError of the dates, raised again likewise
RaiseDates ==
    /\ csv_pc = "read"
    /\ MissingColumns(csv_file.columns) = <<>>
    /\ ~DatesParse(csv_file.rows)
    /\ parsed' = [outcome |-> "ValueError",
                  message |-> <<"Error processing CSV file: ", "Error parsing dates: ", <<>>>>]
    /\ csv_pc' = "done"
    /\ UNCHANGED csv_file
    /\ UNCHANGED besidesCsv

\* 73-108: the DataFrame returned
ReturnParsed ==
    /\ csv_pc = "read"
    /\ MissingColumns(csv_file.columns) = <<>>
    /\ DatesParse(csv_file.rows)
    /\ parsed' = [outcome |-> "returned",
                  columns |-> csv_file.columns \cup {"Volume", "_id"},
                  rows |-> [k \in 1 .. Len(csv_file.rows) |->
                               NumericRow(csv_file.columns, csv_file.rows[k])]]
    /\ csv_pc' = "done"
    /\ UNCHANGED csv_file
    /\ UNCHANGED besidesCsv

-----------------------------------------------------------------------------
(* data/processor.py: set order and workout_id of preprocess_data,          *)
(* segment_workouts_by_type, filter_data_by_criteria                        *)

MaxWkRows == 3          \* rows of the DataFrame

NoOrder == 0            \* the NaN of a Set Order cell that held no number

\* Workout names and dates as the characters of their strings.
WorkoutNameChars ==
    [n \in {"Push", "Leg Day"} |->
        IF n = "Push" THEN <<"P", "u", "s", "h">>
        ELSE <<"L", "e", "g", " ", "D", "a", "y">>]
\* date.strftime('%Y%m%d') of the dates 1 and 2 (2024-01-01, 2024-01-02)
DateChars ==
    [d \in {1, 2} |-> <<"2", "0", "2", "4", "0", "1", "0", IF d = 1 THEN "1" ELSE "2">>]

\* The muscle groups map_exercise_to_muscle_group gives the two exercises.
WkMuscleGroup == [e \in {"Bench Press", "Squat"} |-> IF e = "Squat" THEN "Legs" ELSE "Chest"]

WkRowSpace ==
    [Date : {1, 2}, WorkoutName : {"Push", "Leg Day"}, ExerciseName : {"Bench Press", "Squat"},
     SetOrder : {NoOrder, 1, 2}, MuscleGroup : {""}, workout_id : {<<>>}]

WkDatasets == UNION {[1 .. n -> WkRowSpace] : n \in 1 .. MaxWkRows}

\* 97: groupby(['Date', 'Exercise Name']).cumcount() + 1 at row k
CumCountByExercise(rows, k) ==
    Cardinality({j \in 1 .. k : /\ rows[j].Date = rows[k].Date
                                /\ rows[j].ExerciseName = rows[k].ExerciseName})

\* 99: groupby(['Date', 'Workout Name', 'Exercise Name']).cumcount() + 1 at row k
CumCountByWorkout(rows, k) ==
    Cardinality({j \in 1 .. k : /\ rows[j].Date = rows[k].Date
                                /\ rows[j].WorkoutName = rows[k].WorkoutName
                                /\ rows[j].ExerciseName = rows[k].ExerciseName})

\* 97: Series.equals; a column with a NaN is of another dtype than the counter
SetOrderEquals(rows) ==
    \A k \in 1 .. Len(rows) :
        rows[k].SetOrder # NoOrder /\ rows[k].SetOrder = CumCountByExercise(rows, k)

\* 96-100
WithSetOrder(rows) ==
    IF ~SetOrderEquals(rows)
    THEN [k \in 1 .. Len(rows) |-> [rows[k] EXCEPT !.SetOrder = CumCountByWorkout(rows, k)]]
    ELSE rows

\* str.replace(' ', '_')
ReplaceSpaces(chars) == [k \in 1 .. Len(chars) |-> IF chars[k] = " " THEN "_" ELSE chars[k]]

\* 122-123: strftime('%Y%m%d') + '_' + the workout name with its spaces replaced
PreprocessWorkoutId(row) ==
    DateChars[row.Date] \o <<"_">> \o ReplaceSpaces(WorkoutNameChars[row.WorkoutName])

\* 499: f"{date.strftime('%Y%m%d')}_{workout_name}"
SegmentWorkoutId(d, workout_name) == DateChars[d] \o <<"_">> \o WorkoutNameChars[workout_name]

\* 502-509: sets per muscle group as a share of the sets of the workout
MusclePercentages(workout_rows) ==
    [m \in {workout_rows[k].MuscleGroup : k \in 1 .. Len(workout_rows)} |->
        Rat(Cardinality({k \in 1 .. Len(workout_rows) : workout_rows[k].MuscleGroup = m}) * 100,
            Len(workout_rows))]

\* 511-551
WorkoutType(workout_rows) ==
    LET pct == MusclePercentages(workout_rows)
        has(m, least) == m \in DOMAIN pct /\ GE(pct[m], Q(least))
        get(m) == IF m \in DOMAIN pct THEN pct[m] ELSE Q(0)
    IN  IF has("Chest", 50) THEN "Chest Focused"
        ELSE IF has("Back", 50) THEN "Back Focused"
        ELSE IF has("Legs", 50) THEN "Leg Day"
        ELSE IF has("Shoulders", 40) THEN "Shoulder Focused"
        ELSE IF has("Arms", 40) THEN "Arm Day"
        ELSE IF has("Core", 40) THEN "Core Focused"
        ELSE IF has("Cardio", 40) THEN "Cardio Session"
        ELSE IF has("Olympic", 30) THEN "Olympic Lifting"
        ELSE IF DOMAIN pct \cap {"Chest", "Shoulders", "Triceps", "Arms"} # {}
             THEN IF GE(RatAdd(RatAdd(get("Chest"), get("Shoulders")), get("Arms")), Q(70))
                  THEN "Push Workout" ELSE "Upper Body"
        ELSE IF DOMAIN pct \cap {"Back", "Biceps", "Arms"} # {}
             THEN IF GE(RatAdd(get("Back"), get("Arms")), Q(70))
                  THEN "Pull Workout" ELSE "Upper Body"
        ELSE IF "Legs" \in DOMAIN pct THEN "Lower Body"
        ELSE IF Cardinality(DOMAIN pct) >= 3 THEN "Full Body"
        ELSE "Other"

\* 490, 501: the rows of the workout of a date and a name
RowsOfWorkout(rows, d, workout_name) ==
    LET of_workout(r) == r.Date = d /\ r.WorkoutName = workout_name
    IN  SelectSeq(rows, of_workout)

\* 476-562: segment_workouts_by_type, workout_id -> workout_type
segment_workouts_by_type(rows) ==
    LET workouts == {<<rows[k].Date, rows[k].WorkoutName>> : k \in 1 .. Len(rows)}
    IN  [wid \in {SegmentWorkoutId(w[1], w[2]) : w \in workouts} |->
            LET w == CHOOSE x \in workouts : SegmentWorkoutId(x[1], x[2]) = wid
            IN  WorkoutType(RowsOfWorkout(rows, w[1], w[2]))]

\* The filters asked with.
TypeFilters == {{"Chest Focused"}, {"Leg Day"}, {"Chest Focused", "Leg Day"}}

WkIdle ==
    /\ wk_df = <<>> /\ workout_types = <<>> /\ type_filter = {}
    /\ filtered_df = <<>> /\ wk_pc = "idle"

InitWorkouts ==
    /\ wk_df \in WkDatasets
    /\ workout_types = <<>> /\ type_filter = {} /\ filtered_df = <<>>
    /\ wk_pc = "parsed"

\* 38, 96-100, 121-123: preprocess_data
PreprocessWorkouts ==
    /\ wk_pc = "parsed"
    /\ wk_df' = LET ordered == WithSetOrder(wk_df)
                IN  [k \in 1 .. Len(ordered) |->
                        [ordered[k] EXCEPT
                            !.MuscleGroup = WkMuscleGroup[ordered[k].ExerciseName],
                            !.workout_id = PreprocessWorkoutId(ordered[k])]]
    /\ wk_pc' = "preprocessed"
    /\ UNCHANGED <<workout_types, type_filter, filtered_df>>
    /\ UNCHANGED besidesWk

\* 694-705: filter_data_by_criteria(df, {'workout_types': types})
FilterByWorkoutTypes ==
    /\ wk_pc = "preprocessed"
    /\ \E types \in TypeFilters :
          LET segmented == segment_workouts_by_type(wk_df)
              filtered_workout_ids == {wid \in DOMAIN segmented : segmented[wid] \in types}
              kept(r) == r.workout_id \in filtered_workout_ids
          IN  /\ type_filter' = types
              /\ workout_types' = segmented
              /\ filtered_df' = SelectSeq(wk_df, kept)
    /\ wk_pc' = "filtered"
    /\ UNCHANGED wk_df
    /\ UNCHANGED besidesWk

-----------------------------------------------------------------------------
(* old_monolith/muscle_group_utils.py: analyze_workout_patterns, and its    *)
(* copy in app/pages/workout_patterns.py: the longest streak                *)

MaxDay == 6             \* workout dates are days 1 .. MaxDay

\* 374-392: the lengths of the streaks appended, scanning sorted dates from i
RECURSIVE StreakLengths(_, _, _)
StreakLengths(dates, i, current_streak) ==
    IF i > Len(dates)
    THEN IF current_streak > 1 THEN <<current_streak>> ELSE <<>>
    ELSE IF dates[i] - dates[i - 1] = 1
         THEN StreakLengths(dates, i + 1, current_streak + 1)
         ELSE (IF current_streak > 1 THEN <<current_streak>> ELSE <<>>)
              \o StreakLengths(dates, i + 1, 1)

\* muscle_group_utils.py 394: max(len(streak) for streak in streaks) if streaks else 0
MonolithLongestStreak(workout_dates) ==
    LET streaks == StreakLengths(Ascending(workout_dates), 2, 1)
    IN  IF streaks # <<>> THEN MaxOf(streaks) ELSE 0

\* workout_patterns.py 65: ... if streaks else 1
PageLongestStreak(unique_dates) ==
    LET streaks == StreakLengths(Ascending(unique_dates), 2, 1)
    IN  IF streaks # <<>> THEN MaxOf(streaks) ELSE 1

StreakIdle == streak_dates = {} /\ longest_streak = <<>> /\ streak_pc = "idle"

\* The dates of a non-empty dataset.
InitStreak ==
    /\ streak_dates \in SUBSET (1 .. MaxDay) \ {{}}
    /\ longest_streak = <<>> /\ streak_pc = "loaded"

\* muscle_group_utils.py 330-401
AnalyzeWorkoutPatterns ==
    /\ streak_pc \in {"loaded", "rendered"}
    /\ longest_streak' = ("analyze_workout_patterns" :> MonolithLongestStreak(streak_dates))
                            @@ longest_streak
    /\ streak_pc' = IF streak_pc = "loaded" THEN "analyzed" ELSE "both"
    /\ UNCHANGED streak_dates
    /\ UNCHANGED besidesStreak

\* workout_patterns.py 36-65
RenderWorkoutPatterns ==
    /\ streak_pc \in {"loaded", "analyzed"}
    /\ longest_streak' = ("render" :> PageLongestStreak(streak_dates)) @@ longest_streak
    /\ streak_pc' = IF streak_pc = "loaded" THEN "rendered" ELSE "both"
    /\ UNCHANGED streak_dates
    /\ UNCHANGED besidesStreak

-----------------------------------------------------------------------------
(* analysis/progress.py: _calculate_exercise_improvements                   *)

MaxImpRows == 3         \* rows of the exercise

ImpColumns == {"Date", "Exercise Name", "Weight (kg)", "Reps"}

\* The sets of the exercise, <<kg, reps>>, and the DataFrames made of them:
\* rows of distinct dates in any order, with or without the column '1RM'.
ImpSets == {<<0, 5>>, <<60, 5>>, <<60, 8>>, <<65, 5>>}
ImpFrames ==
    [columns : {ImpColumns, ImpColumns \cup {"1RM"}},
     rows : {s \in UNION {[1 .. n -> [Date : {1, 8, 15}, Set : ImpSets]] : n \in 1 .. MaxImpRows} :
                \A i, j \in 1 .. Len(s) : i # j => s[i].Date # s[j].Date}]

\* 150: sort_values('Date') on rows of distinct dates
SortedByDate(rows) ==
    LET at(d) == CHOOSE k \in 1 .. Len(rows) : rows[k].Date = d
        dates == Ascending({rows[k].Date : k \in 1 .. Len(rows)})
    IN  [k \in 1 .. Len(rows) |-> rows[at(dates[k])]]

\* The value of the column '1RM' of a row, as preprocess_data computed it.
Imp1RM(row) == calculate_1rm(row.Set[1], row.Set[2])

\* (latest - earliest) / earliest * 100
GainPercent(earliest, latest) == RatMul(RatDiv(RatSub(latest, earliest), earliest), Q(100))

\* 163: the column whose presence the 1RM improvement is computed on
OrmColumnAskedFor == "IRM"

\* 142-177: the entry of the exercise, if it has two rows or more
ExerciseImprovements(frame) ==
    IF Len(frame.rows) < 2 THEN <<>>
    ELSE
    LET by_date == SortedByDate(frame.rows)
        earliest == by_date[1]
        latest == by_date[Len(by_date)]
        weight_improvement ==
            IF earliest.Set[1] > 0
            THEN GainPercent(Q(earliest.Set[1]), Q(latest.Set[1])) ELSE Q(0)
        orm_improvement ==
            IF OrmColumnAskedFor \in frame.columns /\ GT(Imp1RM(earliest), Q(0))
            THEN GainPercent(Imp1RM(earliest), Imp1RM(latest)) ELSE Q(0)
    IN  <<[improvement |-> RatDiv(RatAdd(weight_improvement, orm_improvement), Q(2)),
           weight_improvement |-> weight_improvement,
           orm_improvement |-> orm_improvement]>>

ImpIdle ==
    /\ imp_df = [columns |-> {}, rows |-> <<>>]
    /\ exercise_improvements = <<>> /\ imp_pc = "idle"

InitImprovements ==
    /\ imp_df \in ImpFrames
    /\ exercise_improvements = <<>> /\ imp_pc = "loaded"

\* 126-182: _calculate_exercise_improvements
CalculateImprovements ==
    /\ imp_pc = "loaded"
    /\ exercise_improvements' = ExerciseImprovements(imp_df)
    /\ imp_pc' = "returned"
    /\ UNCHANGED imp_df
    /\ UNCHANGED besidesImp

-----------------------------------------------------------------------------
(* analysis/exercise.py: detect_plateaus                                    *)

\* 194-200 and 209-215: the plateau appended
DetectedRecord(start, end, best, length) ==
    [type |-> "weight", start_date |-> start, end_date |-> end,
     value |-> best, workouts |-> length]

\* 183-215: the loop from row i on (g[i] is .iloc[i-1]) and the check after it;
\* best is max_weight_so_far, start is plateau_start, length is plateau_length.
RECURSIVE DetectLoop(_, _, _, _, _, _, _)
DetectLoop(g, i, w, best, start, length, found) ==
    IF i > Len(g)
    THEN IF length >= w
         THEN Append(found, DetectedRecord(start, g[Len(g)].Date, best, length))
         ELSE found
    ELSE IF g[i].Weight <= best
         THEN DetectLoop(g, i + 1, w, best,
                         IF start = NoDate THEN g[i - 1].Date ELSE start,
                         length + 1, found)
         ELSE DetectLoop(g, i + 1, w, g[i].Weight, NoDate, 0,
                         IF length >= w
                         THEN Append(found, DetectedRecord(start, g[i - 1].Date, best, length))
                         ELSE found)

\* 152-217: groupby('Date') with the maximum weight, then the scan if there
\* are `window` dates or more
detect_plateaus(days, w) ==
    LET g == GroupByDateMax(days)
    IN  IF Len(g) >= w THEN DetectLoop(g, 2, w, g[1].Weight, NoDate, 0, <<>>)
        ELSE <<>>

DetIdle == detected = <<>> /\ detect_pc = "idle"

InitDetect == detected = <<>> /\ detect_pc = "called"

\* detect_plateaus(exercise_df, window) on the rows identify_plateaus is given
DetectPlateaus ==
    /\ detect_pc = "called"
    /\ detected' = detect_plateaus(history, window)
    /\ detect_pc' = "returned"
    /\ UNCHANGED platVars
    /\ UNCHANGED besidesDet

-----------------------------------------------------------------------------
(* The 1RM formulas beside data/processor.py's calculate_1rm                *)

\* The outcome of a call: a value returned, or an exception.
Returns(x) == [state |-> "returned", value |-> x]
Raises == [state |-> "raised", value |-> Q(0)]
NotCalled == [state |-> "not called", value |-> Q(0)]

Formulas == {"records_registry", "app_main", "old_monolith"}

\* app/main.py 167:
\* weight * (36 / (37 - reps)) if reps < 37 and weight > 0 else 0
AppMain1RM(w, r) == IF r < 37 /\ w > 0 THEN Rat(w * 36, 37 - r) ELSE Q(0)

\* old_monolith/muscle_group_utils.py 127-131: 0 for reps == 0 or weight == 0,
\* else weight * (36 / (37 - reps)).  At reps == 37 the division is by zero:
\* ZeroDivisionError on Python numbers, inf on numpy's (the rows handed over
\* by DataFrame.apply).  Past 37 the divisor is negative.
Monolith1RM(w, r) ==
    IF r = 0 \/ w = 0 THEN {Returns(Q(0))}
    ELSE IF r = 37 THEN {Raises, Returns(Infinity)}
    ELSE IF r > 37 THEN {Returns(Rat(-(w * 36), r - 37))}
    ELSE {Returns(Rat(w * 36, 37 - r))}

InlIdle == inline_1rm = [f \in Formulas |-> NotCalled]

InitInline == inline_1rm = [f \in Formulas |-> NotCalled]

\* records_registry.py 79-82 on one row
CallRegistry1RM ==
    /\ inline_1rm["records_registry"] = NotCalled
    /\ inline_1rm' = [inline_1rm EXCEPT !["records_registry"] = Returns(Registry1RM(weight, reps))]
    /\ UNCHANGED ormVars
    /\ UNCHANGED besidesInl

\* app/main.py 164-169 on one row
CallAppMain1RM ==
    /\ inline_1rm["app_main"] = NotCalled
    /\ inline_1rm' = [inline_1rm EXCEPT !["app_main"] = Returns(AppMain1RM(weight, reps))]
    /\ UNCHANGED ormVars
    /\ UNCHANGED besidesInl

\* old_monolith/muscle_group_utils.py 112-132
CallMonolith1RM ==
    /\ inline_1rm["old_monolith"] = NotCalled
    /\ \E outcome \in Monolith1RM(weight, reps) :
          inline_1rm' = [inline_1rm EXCEPT !["old_monolith"] = outcome]
    /\ UNCHANGED ormVars
    /\ UNCHANGED besidesInl

-----------------------------------------------------------------------------
(* Specifications                                                          *)

PipeIdle ==
    /\ columns = {} /\ df = <<>> /\ pc = "idle" /\ sorted_idx = <<>>
    /\ groups = <<>> /\ exercise_name_ = "" /\ exercise_df = <<>>
    /\ max_weight = 0 /\ max_reps = 0 /\ max_volume = 0 /\ max_1rm = Q(0)
    /\ weight_pr_indices = <<>> /\ reps_pr_indices = <<>>
    /\ volume_pr_indices = <<>> /\ orm_pr_indices = <<>>
    /\ first_flags = <<>>

PipeStart(rows) ==
    /\ df = rows
    /\ sorted_idx \in {f \in [ExerciseNamesOf(rows) -> UNION {DateSortedOrders(rows, e) : e \in ExerciseNamesOf(rows)}] :
                          \A e \in ExerciseNamesOf(rows) : f[e] \in DateSortedOrders(rows, e)}
    /\ groups = <<>> /\ exercise_name_ = "" /\ exercise_df = <<>>
    /\ max_weight = 0 /\ max_reps = 0 /\ max_volume = 0 /\ max_1rm = Q(0)
    /\ weight_pr_indices = <<>> /\ reps_pr_indices = <<>>
    /\ volume_pr_indices = <<>> /\ orm_pr_indices = <<>>
    /\ first_flags = <<>>

\* The parts of the program that a specification does not exercise stay idle.
IdleBesidesPipe == OrmIdle /\ ClsIdle /\ PlatIdle /\ PctIdle /\ RankIdle /\ BalIdle /\ RegIdle /\ CsvIdle /\ WkIdle /\ StreakIdle /\ ImpIdle /\ DetIdle /\ InlIdle
IdleBesidesOrm == PipeIdle /\ ClsIdle /\ PlatIdle /\ PctIdle /\ RankIdle /\ BalIdle /\ RegIdle /\ CsvIdle /\ WkIdle /\ StreakIdle /\ ImpIdle /\ DetIdle /\ InlIdle
IdleBesidesCls == PipeIdle /\ OrmIdle /\ PlatIdle /\ PctIdle /\ RankIdle /\ BalIdle /\ RegIdle /\ CsvIdle /\ WkIdle /\ StreakIdle /\ ImpIdle /\ DetIdle /\ InlIdle
IdleBesidesPlat == PipeIdle /\ OrmIdle /\ ClsIdle /\ PctIdle /\ RankIdle /\ BalIdle /\ RegIdle /\ CsvIdle /\ WkIdle /\ StreakIdle /\ ImpIdle /\ DetIdle /\ InlIdle
IdleBesidesPct == OrmIdle /\ ClsIdle /\ PlatIdle /\ PipeIdle /\ RankIdle /\ BalIdle /\ RegIdle /\ CsvIdle /\ WkIdle /\ StreakIdle /\ ImpIdle /\ DetIdle /\ InlIdle
IdleBesidesRank == OrmIdle /\ ClsIdle /\ PlatIdle /\ PctIdle /\ PipeIdle /\ BalIdle /\ RegIdle /\ CsvIdle /\ WkIdle /\ StreakIdle /\ ImpIdle /\ DetIdle /\ InlIdle
IdleBesidesBal == OrmIdle /\ ClsIdle /\ PlatIdle /\ PctIdle /\ RankIdle /\ PipeIdle /\ RegIdle /\ CsvIdle /\ WkIdle /\ StreakIdle /\ ImpIdle /\ DetIdle /\ InlIdle
IdleBesidesReg == OrmIdle /\ ClsIdle /\ PlatIdle /\ PctIdle /\ RankIdle /\ BalIdle /\ PipeIdle /\ CsvIdle /\ WkIdle /\ StreakIdle /\ ImpIdle /\ DetIdle /\ InlIdle
IdleBesidesCsv == OrmIdle /\ ClsIdle /\ PlatIdle /\ PctIdle /\ RankIdle /\ BalIdle /\ RegIdle /\ PipeIdle /\ WkIdle /\ StreakIdle /\ ImpIdle /\ DetIdle /\ InlIdle
IdleBesidesWk == OrmIdle /\ ClsIdle /\ PlatIdle /\ PctIdle /\ RankIdle /\ BalIdle /\ RegIdle /\ CsvIdle /\ PipeIdle /\ StreakIdle /\ ImpIdle /\ DetIdle /\ InlIdle
IdleBesidesStreak == OrmIdle /\ ClsIdle /\ PlatIdle /\ PctIdle /\ RankIdle /\ BalIdle /\ RegIdle /\ CsvIdle /\ WkIdle /\ PipeIdle /\ ImpIdle /\ DetIdle /\ InlIdle
IdleBesidesImp == OrmIdle /\ ClsIdle /\ PlatIdle /\ PctIdle /\ RankIdle /\ BalIdle /\ RegIdle /\ CsvIdle /\ WkIdle /\ StreakIdle /\ PipeIdle /\ DetIdle /\ InlIdle
IdleBesidesDet == OrmIdle /\ ClsIdle /\ PlatIdle /\ PctIdle /\ RankIdle /\ BalIdle /\ RegIdle /\ CsvIdle /\ WkIdle /\ StreakIdle /\ ImpIdle /\ PipeIdle /\ InlIdle
IdleBesidesInl == OrmIdle /\ ClsIdle /\ PlatIdle /\ PctIdle /\ RankIdle /\ BalIdle /\ RegIdle /\ CsvIdle /\ WkIdle /\ StreakIdle /\ ImpIdle /\ DetIdle /\ PipeIdle

\* The program's flow: a CSV is parsed, then preprocessed, then flagged.
InitPipeline ==
    /\ \E rows \in Datasets : PipeStart(rows)
    /\ columns = RequiredColumns
    /\ pc = "raw"
    /\ IdleBesidesPipe

NextPipeline ==
    \/ Parse
    \/ Enrich
    \/ StartPRs
    \/ StartGroup
    \/ CheckSet
    \/ UpdateFlags
    \/ AddAnyPR
    \/ Reapply

SpecPipeline == InitPipeline /\ [][NextPipeline]_vars

\* preprocess_data called on a DataFrame that may already hold a Volume column.
VolumeCells == {0, 300, 1000}

InitPreprocess ==
    /\ \E rows \in Datasets :
          \/ /\ PipeStart(rows)
             /\ columns = RequiredColumns
          \/ \E v \in VolumeCells :
                /\ PipeStart([i \in 1 .. Len(rows) |-> [rows[i] EXCEPT !.Volume = v]])
                /\ columns = RequiredColumns \cup {"Volume"}
    /\ pc = "parsed"
    /\ IdleBesidesPipe

NextPreprocess ==
    \/ Enrich
    \/ StartPRs
    \/ StartGroup
    \/ CheckSet
    \/ UpdateFlags
    \/ AddAnyPR

SpecPreprocess == InitPreprocess /\ [][NextPreprocess]_vars

Init1RMOnly == Init1RM /\ IdleBesidesOrm
Next1RM == (Call1RM \/ CallAgain) /\ UNCHANGED besidesOrm
Spec1RM == Init1RMOnly /\ [][Next1RM]_vars

InitClassifyOnly == InitClassify /\ IdleBesidesCls
NextClassify == (Classify \/ ClassifyAgain) /\ UNCHANGED besidesCls
SpecClassify == InitClassifyOnly /\ [][NextClassify]_vars

InitPlateausOnly == InitPlateaus /\ IdleBesidesPlat
NextPlateaus == TooFewRows \/ StartPlateaus \/ SameOrLower \/ Higher \/ EndOnPlateau
SpecPlateaus == InitPlateausOnly /\ [][NextPlateaus]_vars

InitChangesOnly == InitChanges /\ IdleBesidesPct
NextChanges == SingleRow \/ AnalyzeChanges \/ MetricsChanges
SpecChanges == InitChangesOnly /\ [][NextChanges]_vars

InitRankOnly == InitRank /\ IdleBesidesRank
NextRank == CountExercises \/ OneDateOnly \/ AppendImprovement \/ SortAndCut
SpecRank == InitRankOnly /\ [][NextRank]_vars

InitBalanceOnly == InitBalance /\ IdleBesidesBal
NextBalance == VolumeShares \/ Recommend
SpecBalance == InitBalanceOnly /\ [][NextBalance]_vars

\* The records registry: construction and updates.
InitRegistryOnly == InitRegistry /\ IdleBesidesReg
NextRegistry == Construct \/ UpdateFromDataframe \/ UpdateRaises
SpecRegistry == InitRegistryOnly /\ [][NextRegistry]_vars

\* The records registry with its readers: the timeline and the intensity
\* metrics computed on the DataFrame the registry was updated from.
NextRegistryReaders == NextRegistry \/ IntensityMetrics \/ Timeline \/ TimelineRaises
SpecRegistryReaders == InitRegistryOnly /\ [][NextRegistryReaders]_vars

\* parse_strong_csv on the files of CsvFiles.
InitCsvOnly == InitCsv /\ IdleBesidesCsv
NextCsv == RaiseMissingColumns \/ RaiseDates \/ ReturnParsed
SpecCsv == InitCsvOnly /\ [][NextCsv]_vars

\* preprocess_data's set order and workout_id, and the filter by workout type.
InitWorkoutsOnly == InitWorkouts /\ IdleBesidesWk
NextWorkouts == PreprocessWorkouts \/ FilterByWorkoutTypes
SpecWorkouts == InitWorkoutsOnly /\ [][NextWorkouts]_vars

\* The longest streak of the dates of a dataset, by both functions.
InitStreakOnly == InitStreak /\ IdleBesidesStreak
NextStreak == AnalyzeWorkoutPatterns \/ RenderWorkoutPatterns
SpecStreak == InitStreakOnly /\ [][NextStreak]_vars

\* _calculate_exercise_improvements on the rows of one exercise.
InitImprovementsOnly == InitImprovements /\ IdleBesidesImp
NextImprovements == CalculateImprovements
SpecImprovements == InitImprovementsOnly /\ [][NextImprovements]_vars

\* identify_plateaus and detect_plateaus on the same rows and window >= 2.
InitDetectorsOnly ==
    /\ InitPlateaus /\ window >= 2 /\ InitDetect
    /\ PipeIdle /\ OrmIdle /\ ClsIdle /\ PctIdle /\ RankIdle /\ BalIdle /\ RegIdle
    /\ CsvIdle /\ WkIdle /\ StreakIdle /\ ImpIdle /\ InlIdle
NextDetectors == NextPlateaus \/ DetectPlateaus
SpecDetectors == InitDetectorsOnly /\ [][NextDetectors]_vars

\* calculate_1rm and the three other formulas on one weight >= 0, reps >= 0.
InitFormulasOnly ==
    /\ Init1RM /\ weight >= 0 /\ reps >= 0 /\ InitInline
    /\ PipeIdle /\ ClsIdle /\ PlatIdle /\ PctIdle /\ RankIdle /\ BalIdle /\ RegIdle
    /\ CsvIdle /\ WkIdle /\ StreakIdle /\ ImpIdle /\ DetIdle
NextFormulas ==
    \/ Call1RM /\ UNCHANGED besidesOrm
    \/ CallRegistry1RM
    \/ CallAppMain1RM
    \/ CallMonolith1RM
SpecFormulas == InitFormulasOnly /\ [][NextFormulas]_vars

-----------------------------------------------------------------------------
(* Properties                                                              *)

Flagged == pc \in {"flagged", "reapplied"}

\* The rows of exercise e that precede position k of its date-ascending scan.
Before(e, k) == {sorted_idx[e][j] : j \in 1 .. k - 1}

\* C1: in identify_personal_records, a row is flagged on a dimension (weight,
\* reps, volume, 1RM) if and only if its value is greater than 0 and strictly
\* greater than the value of every row of the same exercise that precedes it
\* in the date-ascending scan.
C1_FlagIffStrictRecord ==
    Flagged =>
        \A e \in DOMAIN sorted_idx : \A k \in 1 .. Len(sorted_idx[e]) :
            LET row == df[sorted_idx[e][k]]
                B == Before(e, k)
            IN  /\ row.IsWeightPR <=>
                     (row.Weight > 0 /\ \A j \in B : df[j].Weight < row.Weight)
                /\ row.IsRepsPR <=>
                     (row.Reps > 0 /\ \A j \in B : df[j].Reps < row.Reps)
                /\ row.IsVolumePR <=>
                     (row.Volume > 0 /\ \A j \in B : df[j].Volume < row.Volume)
                /\ row.Is1RMPR <=>
                     (GT(row.OneRM, Q(0)) /\ \A j \in B : GT(row.OneRM, df[j].OneRM))

\* Scenario A: Bench Press 60x5, 65x5, 62x5 on three dates; rows 1 and 2 are
\* weight, volume and 1RM records, row 3 is no record.
C1_ScenarioA ==
    /\ pc = "flagged"
    /\ Len(df) = 3
    /\ \A i \in 1 .. 3 : df[i].ExerciseName = "Bench Press" /\ df[i].Reps = 5
    /\ <<df[1].Date, df[2].Date, df[3].Date>> = <<1, 8, 15>>
    /\ <<df[1].Weight, df[2].Weight, df[3].Weight>> = <<60, 65, 62>>
    /\ \A i \in 1 .. 2 : df[i].IsWeightPR /\ df[i].IsVolumePR /\ df[i].Is1RMPR
    /\ ~df[3].IsAnyPR

\* C2: identify_personal_records applied to its own output yields the same five
\* PR flags on every row.
C2_Idempotent ==
    pc = "reapplied" => FlagsOf(df) = first_flags

\* The second application has run on a dataset in which some rows were flagged
\* and some were not.
C2_Reapplied ==
    /\ pc = "reapplied"
    /\ \E i, j \in 1 .. Len(df) : first_flags[i][5] /\ ~first_flags[j][5]

IsPrefix(s, t) == Len(s) <= Len(t) /\ \A k \in 1 .. Len(s) : s[k] = t[k]

\* The values of the rows of `indices`, strictly increasing.
Increasing(indices, value(_)) ==
    \A k \in 1 .. Len(indices) - 1 : GT(value(indices[k + 1]), value(indices[k]))

WeightOf(i) == Q(df[i].Weight)
RepsOf(i) == Q(df[i].Reps)
VolumeOf(i) == Q(df[i].Volume)
OneRMOf(i) == df[i].OneRM

\* C3: while one exercise is scanned, no running maximum decreases and no
\* index list loses an entry from one row to the next, the values of the rows
\* flagged on a dimension increase strictly in scan order, and a flag written
\* into the result is not cleared by the rest of the application.
C3_Monotone ==
    [][ /\ (pc = "scanning" /\ exercise_name_ # "" /\ exercise_name_' = exercise_name_) =>
            /\ max_weight' >= max_weight
            /\ max_reps' >= max_reps
            /\ max_volume' >= max_volume
            /\ GE(max_1rm', max_1rm)
            /\ IsPrefix(weight_pr_indices, weight_pr_indices')
            /\ IsPrefix(reps_pr_indices, reps_pr_indices')
            /\ IsPrefix(volume_pr_indices, volume_pr_indices')
            /\ IsPrefix(orm_pr_indices, orm_pr_indices')
            /\ Increasing(weight_pr_indices', WeightOf)
            /\ Increasing(reps_pr_indices', RepsOf)
            /\ Increasing(volume_pr_indices', VolumeOf)
            /\ Increasing(orm_pr_indices', OneRMOf)
        /\ (pc = "scanning" /\ pc' \in {"scanning", "flagged"}) =>
            \A i \in 1 .. Len(df) :
                /\ df[i].IsWeightPR => df'[i].IsWeightPR
                /\ df[i].IsRepsPR => df'[i].IsRepsPR
                /\ df[i].IsVolumePR => df'[i].IsVolumePR
                /\ df[i].Is1RMPR => df'[i].Is1RMPR
      ]_vars

\* A scan has met a smaller value after a record: the maximum stands at 65
\* while the row of 62 has been scanned.
C3_LaterSmaller ==
    /\ pc = "scanning"
    /\ exercise_name_ = "Bench Press"
    /\ exercise_df = <<>>
    /\ max_weight = 65
    /\ Len(weight_pr_indices) = 2
    /\ \E i \in 1 .. Len(df) :
          /\ df[i].Weight = 62
          /\ i \notin Range(weight_pr_indices)
          /\ \E k \in 1 .. Len(sorted_idx["Bench Press"]) :
                /\ sorted_idx["Bench Press"][k] = i
                /\ weight_pr_indices[2] \in Before("Bench Press", k)

\* C7: after preprocess_data every row has Volume = Weight (kg) * Reps,
\* whatever a Volume column already present on the input held.
C7_VolumeRecomputed ==
    pc \in {"enriched", "scanning", "flagged"} =>
        \A i \in 1 .. Len(df) : df[i].Volume = df[i].Weight * df[i].Reps

-----------------------------------------------------------------------------

Called == calls >= 1

\* C4: calculate_1rm(weight, reps) is weight*36/(37-reps) for reps in 1..36
\* and weight > 0, weight*1.1 for reps >= 37 and weight > 0, and 0 when
\* reps = 0 or weight = 0.
C4_Formula ==
    Called =>
        /\ (reps \in 1 .. 36 /\ weight > 0) =>
              Numer(one_rm) * (37 - reps) = weight * 36 * Denom(one_rm)
        /\ (reps >= 37 /\ weight > 0) =>
              Numer(one_rm) * 10 = weight * 11 * Denom(one_rm)
        /\ (reps = 0 \/ weight = 0) => Numer(one_rm) = 0

\* calculate_1rm has answered in each of the three cases.
C4_Brzycki10 ==
    Called /\ weight = 3 /\ reps = 10 /\ EQ(one_rm, <<4, 1>>)

\* C5 as stated: for a fixed weight > 0, calculate_1rm decreases strictly as
\* reps increases over 1..36.
C5_StrictlyDecreasing ==
    (calls = 2 /\ weight > 0 /\ prev_reps \in 1 .. 36 /\ reps \in 1 .. 36
        /\ prev_reps < reps) =>
        GT(prev_one_rm, one_rm)

\* C5 amended: for a fixed weight > 0, calculate_1rm increases strictly as
\* reps increases over 1..36.
C5_StrictlyIncreasing ==
    (calls = 2 /\ weight > 0 /\ prev_reps \in 1 .. 36 /\ reps \in 1 .. 36
        /\ prev_reps < reps) =>
        GT(one_rm, prev_one_rm)

\* Two calls at the same weight, at 10 and then at 11 reps.
C5_TwoCalls ==
    /\ calls = 2 /\ weight = 3 /\ prev_reps = 10 /\ reps = 11
    /\ GT(one_rm, prev_one_rm)

\* C6 as stated: the 1RM of a row is >= 0, and is 0 for every row that does
\* not satisfy reps > 0, reps < 37 and weight > 0.
C6_ZeroOutsideDomain ==
    Called =>
        /\ GE(one_rm, Q(0))
        /\ ~(reps > 0 /\ reps < 37 /\ weight > 0) => EQ(one_rm, Q(0))

\* C6 amended: the 1RM of a row is >= 0; it is 0 exactly for the rows with
\* reps <= 0 or weight <= 0; a row with reps >= 37 and weight > 0 has
\* weight * 1.1.
C6_ZeroIffNoLoad ==
    Called =>
        /\ GE(one_rm, Q(0))
        /\ (reps <= 0 \/ weight <= 0) <=> EQ(one_rm, Q(0))
        /\ (reps >= 37 /\ weight > 0) => EQ(one_rm, <<weight * 11, 10>>)

\* A row of 37 reps has got its 1RM.
C6_HighReps ==
    Called /\ reps = 37 /\ weight = 2 /\ EQ(one_rm, <<22, 10>>)

-----------------------------------------------------------------------------

Classified == classified >= 1

IsName(x) == x.type = "str" /\ x.value # <<>>

\* The curated names equal to the input when both are lowered.
ExactHits(chars) ==
    {k \in 1 .. Len(EXERCISE_MUSCLE_MAP) : Lower(EXERCISE_MUSCLE_MAP[k][1]) = Lower(chars)}

\* The curated names contained in the input, or containing it.
PartialHits(chars) ==
    {k \in 1 .. Len(EXERCISE_MUSCLE_MAP) :
        \/ Contains(Lower(chars), Lower(EXERCISE_MUSCLE_MAP[k][1]))
        \/ Contains(Lower(EXERCISE_MUSCLE_MAP[k][1]), Lower(chars))}

\* The groups one of whose patterns is found in the lowered input.
PatternHits(chars) ==
    {g \in 1 .. Len(MUSCLE_GROUP_PATTERNS) :
        \E p \in 1 .. Len(MUSCLE_GROUP_PATTERNS[g][2]) :
            re_search(MUSCLE_GROUP_PATTERNS[g][2][p], Lower(chars))}

InclineDumbbellBenchPress == Str(Join(<<1, 2>>))
CloseGripBenchPress == Str(Join(<<3, 2>>))

\* C8: the steps apply in order and the first match wins. An input equal to
\* a curated name (case-insensitively) gets that name's group, even when
\* another curated name is a substring of it; otherwise the group of the
\* first curated name, in dictionary order, contained in the input or
\* containing it ("Incline Dumbbell Bench Press" gets "Chest"); otherwise the
\* first group, in pattern-table order, one of whose patterns matches;
\* otherwise "Other".
C8_FirstMatchWins ==
    (Classified /\ IsName(exercise_name)) =>
        LET chars == exercise_name.value
            exact == ExactHits(chars)
            partial == PartialHits(chars)
            pattern == PatternHits(chars)
        IN  /\ muscle_group =
                  IF exact # {} THEN EXERCISE_MUSCLE_MAP[Least(exact)][2]
                  ELSE IF partial # {} THEN EXERCISE_MUSCLE_MAP[Least(partial)][2]
                  ELSE IF pattern # {} THEN MUSCLE_GROUP_PATTERNS[Least(pattern)][1]
                  ELSE "Other"
            /\ exercise_name = InclineDumbbellBenchPress => muscle_group = "Chest"

\* "Incline Dumbbell Bench Press", which is no curated name, is classified by
\* the curated name it contains.
C8_InclineDumbbellBenchPress ==
    /\ Classified /\ exercise_name = InclineDumbbellBenchPress
    /\ ExactHits(exercise_name.value) = {}
    /\ PartialHits(exercise_name.value) # {}
    /\ muscle_group = "Chest"

\* The ten values of the taxonomy.
Taxonomy ==
    {"Chest", "Back", "Shoulders", "Arms", "Legs", "Core", "Olympic", "Cardio",
     "Compound", "Other"}

-----------------------------------------------------------------------------

Returned == ppc = "returned"

\* The per-date maximum weights of the exercise.
DateMax(k) == MaxOf(history[k])

\* Dates s .. e on which the weight does not exceed the weight at s.
IsRun(s, e) == s <= e /\ \A k \in s .. e : DateMax(k) <= DateMax(s)

\* A run that no longer run includes.
IsMaximalRun(s, e) ==
    /\ IsRun(s, e)
    /\ \A s2 \in 1 .. s, e2 \in e .. Len(history) :
          IsRun(s2, e2) => (s2 = s /\ e2 = e)

\* What is to be reported: one record for each maximal run of `window` or
\* more dates.
LongRuns ==
    {[start_date |-> s, end_date |-> e, duration |-> e - s + 1, weight |-> DateMax(s)] :
        <<s, e>> \in {se \in (1 .. Len(history)) \X (1 .. Len(history)) :
                         /\ IsMaximalRun(se[1], se[2])
                         /\ se[2] - se[1] + 1 >= window}}

ReportsLongRunsOnce ==
    /\ Range(plateaus) = LongRuns
    /\ Len(plateaus) = Cardinality(LongRuns)

ScenarioB ==
    /\ window = 3
    /\ Len(history) = 5
    /\ \A k \in 1 .. 4 : DateMax(k) = 100
    /\ DateMax(5) = 105

\* C10: identify_plateaus reports each maximal run of k >= window consecutive
\* workout dates whose per-date maximum weight does not exceed the weight at
\* the run's first date exactly once, with start_date the first date of the
\* run, end_date its last date, duration k and weight the plateaued value;
\* for window 3 and weights 100, 100, 100, 100, 105 that is one plateau over
\* the first four dates, of weight 100 and duration 4.
C10_MaximalRunsReported ==
    Returned =>
        /\ ReportsLongRunsOnce
        /\ ScenarioB =>
              plateaus = <<[start_date |-> 1, end_date |-> 4, duration |-> 4,
                            weight |-> 100]>>

\* The same for a window of two or more dates.
RunsReportedFromWindowTwo ==
    (Returned /\ window >= 2) => ReportsLongRunsOnce

\* Scenario B has returned its one plateau.
ScenarioBReturned ==
    /\ Returned /\ ScenarioB
    /\ plateaus = <<[start_date |-> 1, end_date |-> 4, duration |-> 4, weight |-> 100]>>

\* A strictly higher weight ends the run and becomes the tracked value.
HigherWeightTracked ==
    [][(ppc = "loop" /\ loop_i < Len(grouped)
          /\ grouped[loop_i + 1].Weight > current_weight)
        => (current_weight' = grouped[loop_i + 1].Weight /\ same_weight_count' = 1)]_vars

-----------------------------------------------------------------------------

ChangesComputed == change_pc = "returned" /\ Len(progression) > 1

\* What is asked of one percent change.
IsPercentChange(pct, first, last) ==
    /\ Denom(pct) # 0
    /\ first = 0 => EQ(pct, Q(0))
    /\ first > 0 => Numer(pct) * first = (last - first) * 100 * Denom(pct)

\* C11: every first-to-last percent change computed by
\* analyze_exercise_progression and by calculate_progression_metrics is 0
\* when the first value is 0, whatever the last value, and is
\* (last - first) / first * 100 when the first value is greater than 0;
\* nothing is divided by zero.
C11_ZeroWhenFirstIsZero ==
    ChangesComputed =>
        \A col \in ChangeColumns :
            IsPercentChange(changes[col], progression[1][col],
                            progression[Len(progression)][col])

\* The same for analyze_exercise_progression alone.
AnalyzeChangesZeroWhenFirstIsZero ==
    (ChangesComputed /\ change_fn = "analyze_exercise_progression") =>
        \A col \in ChangeColumns :
            IsPercentChange(changes[col], progression[1][col],
                            progression[Len(progression)][col])

\* calculate_progression_metrics: 100 when the first value is 0 and the last
\* is not.
MetricsHundredFromZero ==
    (ChangesComputed /\ change_fn = "calculate_progression_metrics") =>
        \A col \in ChangeColumns :
            (progression[1][col] = 0 /\ progression[2][col] # 0) =>
                EQ(changes[col], Q(100))

-----------------------------------------------------------------------------

Ranked == rank_pc = "returned"

\* At most top_n entries, by non-increasing overall_improvement, each the
\* arithmetic mean of its three percent changes.
TopOrdered ==
    /\ Len(ranked) <= top_n
    /\ \A k \in 1 .. Len(ranked) - 1 :
          GE(ranked[k].overall_improvement, ranked[k + 1].overall_improvement)
    /\ \A k \in 1 .. Len(ranked) :
          EQ(RatMul(ranked[k].overall_improvement, Q(3)),
             RatAdd(RatAdd(ranked[k].weight_change_pct, ranked[k].volume_change_pct),
                    ranked[k].one_rm_change_pct))

\* C12: find_most_improved_exercises returns at most top_n entries, ordered
\* by non-increasing overall_improvement (the mean of the weight, volume and
\* 1RM percent changes), and every returned entry's reported occurrences,
\* the number of distinct workout dates of the exercise, is at least
\* min_occurrences: an exercise of two workouts is left out when
\* min_occurrences is 3.
C12_FrequentOnly ==
    Ranked =>
        /\ TopOrdered
        /\ \A k \in 1 .. Len(ranked) :
              /\ ranked[k].occurrences = Cardinality(DatesOf(rank_df, ranked[k].exercise))
              /\ ranked[k].occurrences >= min_occurrences

\* What the code gives: the size, the order, and min_occurrences rows (not
\* dates) of every returned exercise.
RankedByRowCount ==
    Ranked =>
        /\ TopOrdered
        /\ \A k \in 1 .. Len(ranked) :
              /\ ranked[k].occurrences = Cardinality(DatesOf(rank_df, ranked[k].exercise))
              /\ ranked[k].occurrences >= 2
              /\ value_counts(rank_df, ranked[k].exercise) >= min_occurrences

\* Two exercises have been ranked, the more improved first.
TwoRanked ==
    /\ Ranked /\ Len(ranked) = 2
    /\ GT(ranked[1].overall_improvement, ranked[2].overall_improvement)

\* An exercise of three rows on two dates is returned at min_occurrences 3.
TwoWorkoutsReturned ==
    /\ Ranked /\ min_occurrences = 3
    /\ \E k \in 1 .. Len(ranked) : ranked[k].occurrences = 2

-----------------------------------------------------------------------------

Balanced == bal_pc = "returned"

GroupVolume(g) == SeqSum(balance_df[g])

\* Push and pull volume as the weighting defines them.
PushVolume == Rat(10 * GroupVolume("Chest") + 10 * GroupVolume("Shoulders")
                    + 6 * GroupVolume("Arms"), 10)
PullVolume == Rat(10 * GroupVolume("Back") + 4 * GroupVolume("Arms"), 10)

\* push / pull > bound and push / pull < bound, for pull > 0
RatioAbove(bound) == GT(PushVolume, RatMul(PullVolume, bound))
RatioBelow(bound) == GT(RatMul(PullVolume, bound), PushVolume)

Recommended(issue) == \E k \in 1 .. Len(recommendations) : recommendations[k].issue = issue

SeverityOf(issue) ==
    recommendations[CHOOSE k \in 1 .. Len(recommendations) :
                        recommendations[k].issue = issue].severity

ScenarioPush ==
    /\ balance_df.Chest = <<100>> /\ balance_df.Shoulders = <<50>>
    /\ balance_df.Arms = <<40>> /\ balance_df.Back = <<60>>

\* C13: push = Chest + Shoulders + 0.6*Arms and pull = Back + 0.4*Arms; a
\* Push/Pull Imbalance recommendation is emitted exactly when push/pull > 1.3,
\* of severity 'high' exactly when the ratio is above 1.6 and 'moderate' when
\* it is in (1.3, 1.6]; a pull-dominant recommendation is emitted exactly
\* when push/pull < 0.7; Chest 100, Shoulders 50, Arms 40, Back 60 give push
\* 174, pull 76 and a high-severity push-dominant recommendation.
C13_PushPull ==
    (Balanced /\ GT(PullVolume, Q(0))) =>
        /\ EQ(push_muscles, PushVolume) /\ EQ(pull_muscles, PullVolume)
        /\ Recommended("Push/Pull Imbalance") <=> RatioAbove(<<13, 10>>)
        /\ Recommended("Push/Pull Imbalance") =>
              /\ SeverityOf("Push/Pull Imbalance") = "high" <=> RatioAbove(<<16, 10>>)
              /\ ~RatioAbove(<<16, 10>>) => SeverityOf("Push/Pull Imbalance") = "moderate"
        /\ Recommended("Pull/Push Imbalance") <=> RatioBelow(<<7, 10>>)
        /\ ScenarioPush =>
              /\ EQ(push_muscles, Q(174)) /\ EQ(pull_muscles, Q(76))
              /\ Recommended("Push/Pull Imbalance")
              /\ SeverityOf("Push/Pull Imbalance") = "high"

\* What the code gives: 'high' from a ratio of 1.6 on, 'moderate' below it.
PushPullHighFromSixteenTenths ==
    (Balanced /\ GT(PullVolume, Q(0))) =>
        /\ EQ(push_muscles, PushVolume) /\ EQ(pull_muscles, PullVolume)
        /\ Recommended("Push/Pull Imbalance") <=> RatioAbove(<<13, 10>>)
        /\ Recommended("Push/Pull Imbalance") =>
              (SeverityOf("Push/Pull Imbalance") = "high" <=> ~RatioBelow(<<16, 10>>))
        /\ Recommended("Pull/Push Imbalance") <=> RatioBelow(<<7, 10>>)

\* The scenario's dataset has got its high-severity recommendation.
ScenarioPushHigh ==
    /\ Balanced /\ ScenarioPush
    /\ EQ(push_muscles, Q(174)) /\ EQ(pull_muscles, Q(76))
    /\ SeverityOf("Push/Pull Imbalance") = "high"

\* A ratio of exactly 1.6 is reported with severity 'high'.
RatioSixteenTenthsHigh ==
    /\ Balanced /\ GT(PullVolume, Q(0))
    /\ EQ(PushVolume, RatMul(PullVolume, <<16, 10>>))
    /\ SeverityOf("Push/Pull Imbalance") = "high"

-----------------------------------------------------------------------------

TotalVolume ==
    GroupVolume("Chest") + GroupVolume("Shoulders") + GroupVolume("Arms")
        + GroupVolume("Back") + GroupVolume("Legs") + GroupVolume("Core")

\* The share of a group in the total volume is below percent (0% for a
\* group that has no rows).
ShareBelow(g, percent) == GroupVolume(g) * 100 < percent * TotalVolume

HasRows(g) == balance_df[g] # <<>>

\* C14: for a dataset of positive total volume, a low-core recommendation is
\* emitted whenever Core's share is below 5%, a dataset with no Core rows
\* included, and a low-volume recommendation for each of Shoulders, Back and
\* Legs whose share is below 10%, a group with no rows included; is_balanced
\* is true exactly when the list of recommendations is empty.
C14_LowShares ==
    (Balanced /\ TotalVolume > 0) =>
        /\ ShareBelow("Core", 5) => Recommended("Low Core Training")
        /\ \A g \in {"Shoulders", "Back", "Legs"} :
              ShareBelow(g, 10) => Recommended(LowVolumeIssue[g])
        /\ is_balanced <=> recommendations = <<>>

\* What the code gives: the recommendations for the groups that have rows.
LowSharesOfGroupsWithRows ==
    (Balanced /\ TotalVolume > 0) =>
        /\ Recommended("Low Core Training") <=> (HasRows("Core") /\ ShareBelow("Core", 5))
        /\ \A g \in {"Shoulders", "Back", "Legs"} :
              Recommended(LowVolumeIssue[g]) <=> (HasRows(g) /\ ShareBelow(g, 10))
        /\ is_balanced <=> recommendations = <<>>

\* A dataset with no Core rows is found balanced.
NoCoreRowsBalanced ==
    /\ Balanced /\ TotalVolume > 0 /\ ~HasRows("Core") /\ is_balanced

\* A dataset whose Core rows are below 5% has got its recommendation.
LowCoreRecommended ==
    /\ Balanced /\ HasRows("Core") /\ ShareBelow("Core", 5)
    /\ Recommended("Low Core Training") /\ ~is_balanced

-----------------------------------------------------------------------------

(* RecordsRegistry                                                          *)

WellFormed(doc) ==
    {"exercises", "muscle_groups", "overall", "last_updated"} \subseteq DOMAIN doc

\* update_from_dataframe has returned, on the DataFrame it was given before.
SameDatasetAgain ==
    /\ reg_pc = "ready" /\ reg_pc' = "ready"
    /\ updates >= 1 /\ updates' = updates + 1
    /\ given_df' = given_df

\* C15: applying the same dataset a second time immediately after the first
\* leaves every stored record and every history list under exercises,
\* muscle_groups and overall unchanged; only last_updated may differ.
C15_Idempotent ==
    [][SameDatasetAgain =>
          records' = [records EXCEPT !.last_updated = records'.last_updated]]_vars

\* One dataset was applied twice and has left records and history entries.
AppliedTwice ==
    /\ reg_pc = "ready" /\ updates = 2 /\ Cardinality(applied) = 1
    /\ \E e \in DOMAIN records.exercises :
          /\ GT(records.exercises[e].max_weight.value, Q(0))
          /\ \E d \in DOMAIN records.exercises[e].history :
                Len(records.exercises[e].history[d]) >= 1

Dimensions ==
    {"max_weight", "max_reps", "max_volume_set", "max_volume_workout", "max_1rm"}

\* The value a dataset offers for a dimension of an exercise: the largest
\* weight, reps or weight * reps of a row, the largest sum of weight * reps
\* over the rows of a date, the largest 1RM as the registry computes it.
CandidateValue(frame, e, dim) ==
    LET R == {k \in 1 .. Len(frame.rows) : frame.rows[k].ExerciseName = e}
        row(k) == frame.rows[k]
        on(d) == {k \in R : row(k).Date = d}
        RECURSIVE sum(_)
        sum(S) == IF S = {} THEN 0
                  ELSE LET k == CHOOSE j \in S : TRUE
                       IN  row(k).Weight * row(k).Reps + sum(S \ {k})
    IN  IF R = {} THEN Q(0)
        ELSE CASE dim = "max_weight" -> RatMax({Q(row(k).Weight) : k \in R})
               [] dim = "max_reps" -> RatMax({Q(row(k).Reps) : k \in R})
               [] dim = "max_volume_set" -> RatMax({Q(row(k).Weight * row(k).Reps) : k \in R})
               [] dim = "max_volume_workout" ->
                      RatMax({Q(sum(on(row(k).Date))) : k \in R})
               [] dim = "max_1rm" ->
                      RatMax({Registry1RM(row(k).Weight, row(k).Reps) : k \in R})

\* The largest candidate over the datasets applied so far, 0 if none is positive.
BestSoFar(e, dim) == RatMax({Q(0)} \cup {CandidateValue(f, e, dim) : f \in applied})

StoredBest ==
    (reg_pc = "ready" /\ WellFormed(records)) =>
        /\ \A e \in DOMAIN records.exercises : \A dim \in Dimensions :
              EQ(records.exercises[e][dim].value, BestSoFar(e, dim))
        /\ \A e \in Range(RegExerciseOrder) \ DOMAIN records.exercises :
              \A dim \in Dimensions : EQ(BestSoFar(e, dim), Q(0))

OverwrittenByGreater ==
    (WellFormed(records) /\ WellFormed(records')) =>
        \A e \in DOMAIN records'.exercises : \A dim \in Dimensions :
            LET before == IF e \in DOMAIN records.exercises
                          THEN records.exercises[e][dim] ELSE NewExercise[dim]
                after == records'.exercises[e][dim]
            IN  /\ GE(after.value, before.value)
                /\ after # before => GT(after.value, before.value)

\* C16: after any sequence of updates from the empty registry the stored
\* value of every dimension of every exercise is the largest candidate over
\* the datasets applied so far (0 if none is positive); a stored value never
\* decreases and is overwritten only by a strictly greater candidate.
C16_BestEver == []StoredBest /\ [][OverwrittenByGreater]_vars

\* The second dataset offered a positive weight below the stored one, and a
\* number of reps equal to the stored one, for an exercise.
KeptAgainstSmaller ==
    /\ reg_pc = "ready" /\ updates = 2
    /\ \E e \in DOMAIN records.exercises :
          /\ GT(CandidateValue(given_df, e, "max_weight"), Q(0))
          /\ GT(records.exercises[e].max_weight.value,
                CandidateValue(given_df, e, "max_weight"))
          /\ EQ(records.exercises[e].max_reps.value,
                CandidateValue(given_df, e, "max_reps"))
          /\ records.exercises[e].max_reps.date \notin
                {given_df.rows[k].Date : k \in 1 .. Len(given_df.rows)}

MuscleDimensions == {"max_weight", "max_volume_workout", "max_1rm"}
OverallDimensions == {"total_volume", "max_weight", "max_reps", "max_volume_set", "max_1rm"}

\* The history of a scope holds, under the date of the record of `dim`, an
\* entry naming the record and its value.
EntryLogged(scope, dim) ==
    /\ "history" \in DOMAIN scope
    /\ scope[dim].date \in DOMAIN scope.history
    /\ \E entry \in Range(scope.history[scope[dim].date]) :
          /\ entry.record = RecordName[dim]
          /\ entry.value = Tenths(scope[dim].value)

\* Every history list of `before` is the beginning of the list of its date in `after`.
HistoryKept(before, after) ==
    \A d \in DOMAIN before.history :
        d \in DOMAIN after.history /\ IsPrefix(before.history[d], after.history[d])

EntriesKept ==
    /\ \A e \in DOMAIN records.exercises :
          e \in DOMAIN records'.exercises
          /\ HistoryKept(records.exercises[e], records'.exercises[e])
    /\ \A m \in DOMAIN records.muscle_groups :
          m \in DOMAIN records'.muscle_groups
          /\ HistoryKept(records.muscle_groups[m], records'.muscle_groups[m])

\* The records of the dimensions `dims` an update has overwritten, in the
\* exercises and the muscle groups, have their entries.
OverwrittenLogged(exercise_dims, muscle_dims) ==
    /\ \A e \in DOMAIN records'.exercises : \A dim \in exercise_dims :
          LET before == IF e \in DOMAIN records.exercises
                        THEN records.exercises[e] ELSE NewExercise
          IN  records'.exercises[e][dim] # before[dim]
                  => EntryLogged(records'.exercises[e], dim)
    /\ \A m \in DOMAIN records'.muscle_groups : \A dim \in muscle_dims :
          LET before == IF m \in DOMAIN records.muscle_groups
                        THEN records.muscle_groups[m] ELSE NewMuscleGroup
          IN  records'.muscle_groups[m][dim] # before[dim]
                  => EntryLogged(records'.muscle_groups[m], dim)

\* C17: whenever an update overwrites a stored record of any of the five
\* dimensions for an exercise, a muscle group or the overall scope, an entry
\* for that record is appended to the history list of the record's date in
\* that scope; entries already in a history list are never removed or
\* altered by later updates.
C17_EveryRecordLogged ==
    [][(WellFormed(records) /\ WellFormed(records')) =>
          /\ OverwrittenLogged(Dimensions, MuscleDimensions)
          /\ \A dim \in OverallDimensions :
                records'.overall[dim] # records.overall[dim]
                    => EntryLogged(records'.overall, dim)
          /\ EntriesKept]_vars

\* What the code gives: entries for the records of an exercise other than
\* its largest workout volume and for the records of a muscle group, and
\* entries once written stay where they are.
LoggedBesidesWorkoutVolumeAndOverall ==
    [][(WellFormed(records) /\ WellFormed(records')) =>
          /\ OverwrittenLogged(Dimensions \ {"max_volume_workout"}, MuscleDimensions)
          /\ EntriesKept]_vars

\* An exercise holds a workout-volume record no entry of its history names.
WorkoutVolumeUnlogged ==
    /\ reg_pc = "ready" /\ WellFormed(records)
    /\ \E e \in DOMAIN records.exercises :
          /\ GT(records.exercises[e].max_volume_workout.value, Q(0))
          /\ ~EntryLogged(records.exercises[e], "max_volume_workout")

\* The overall scope holds records and no history.
OverallWithoutHistory ==
    /\ reg_pc = "ready" /\ WellFormed(records)
    /\ GT(records.overall.max_weight.value, Q(0))
    /\ "history" \notin DOMAIN records.overall

\* A second update appended an entry under a date that had entries.
SecondEntryAppended ==
    /\ reg_pc = "ready" /\ updates = 2
    /\ \E m \in DOMAIN records.muscle_groups : \E d \in DOMAIN records.muscle_groups[m].history :
          Len(records.muscle_groups[m].history[d]) >= 4

\* C18: whether the file is missing, unreadable as JSON or holds a document
\* that lacks the expected structure, the registry starts as the empty
\* registry, and every later update, accessor and timeline call operates on
\* a well-formed registry: none raises.
C18_StartsEmpty ==
    /\ reg_pc # "start" => WellFormed(records)
    /\ (reg_pc = "ready" /\ updates = 0) => records = EmptyRegistry
    /\ reg_pc # "raised"

\* What the code gives: the empty registry for a file that is missing or is
\* not JSON.
MissingOrUnreadableStartsEmpty ==
    (reg_pc # "start" /\ updates = 0 /\ reg_file.kind # "json") =>
        records = EmptyRegistry /\ WellFormed(records)

\* The registry holds a document that lacks the structure.
MalformedLoaded == reg_pc = "ready" /\ ~WellFormed(records)

\* update_from_dataframe has raised KeyError on such a document.
UpdateRaised == reg_pc = "raised" /\ updates = 1 /\ ~WellFormed(records)

\* create_records_timeline has raised KeyError on such a document.
TimelineRaised == reg_pc = "raised" /\ updates = 0 /\ ~WellFormed(records)

Listed == reg_pc = "listed"

\* The muscle groups of the rows of exercise e in the datasets applied.
GroupsOf(e) ==
    UNION {{f.rows[k].MuscleGroup : k \in {j \in 1 .. Len(f.rows) :
                                              f.rows[j].ExerciseName = e}} : f \in applied}

\* The record events of the exercises `names`.
EventsOf(names) ==
    UNION {UNION {{[exercise |-> e, date |-> d, record |-> entry] :
                      entry \in Range(records.exercises[e].history[d])} :
                  d \in DOMAIN records.exercises[e].history} :
           e \in names}

Shown(event) ==
    \E k \in 1 .. Len(timeline) :
        /\ timeline[k].type = "exercise"
        /\ timeline[k].exercise = event.exercise
        /\ timeline[k].date = event.date
        /\ timeline[k].record = event.record

DateDescending ==
    \A i, j \in 1 .. Len(timeline) : i < j => timeline[i].date >= timeline[j].date

\* The events left out are those the cut to limit removes behind later ones.
ShownUpToLimit(events) ==
    \A event \in events :
        \/ Shown(event)
        \/ /\ timeline_args.limit > 0 /\ Len(timeline) = timeline_args.limit
           /\ \A k \in 1 .. Len(timeline) : timeline[k].date >= event.date

\* C19: with a muscle_group filter g (not None/"all") and no exercise filter
\* the timeline holds, sorted by date descending and cut to limit, the record
\* events of every exercise whose rows in the applied datasets belong to g,
\* and no event of an exercise belonging to another muscle group.
C19_TimelineOfGroup ==
    (Listed /\ timeline_args.muscle_group \notin {"", "all"}) =>
        LET in_group == {e \in DOMAIN records.exercises :
                            timeline_args.muscle_group \in GroupsOf(e)}
        IN  /\ DateDescending
            /\ timeline_args.limit > 0 => Len(timeline) <= timeline_args.limit
            /\ \A k \in 1 .. Len(timeline) :
                  timeline[k].type = "exercise" => timeline[k].exercise \in in_group
            /\ ShownUpToLimit(EventsOf(in_group))

\* What the code gives: the events of the exercises whose name a record or a
\* history entry of the muscle group shows, sorted and cut; with no filter,
\* the events of every exercise.
TimelineOfRecordHolders ==
    Listed =>
        LET held == {e \in DOMAIN records.exercises :
                        \/ timeline_args.muscle_group \in {"", "all"}
                        \/ ExMuscle(records, muscle_keys, e) = timeline_args.muscle_group}
        IN  /\ DateDescending
            /\ timeline_args.limit > 0 => Len(timeline) <= timeline_args.limit
            /\ \A k \in 1 .. Len(timeline) :
                  timeline[k].type = "exercise" => timeline[k].exercise \in held
            /\ ShownUpToLimit(EventsOf(held))

\* The whole timeline of Chest, and no event of Incline Bench Press in it,
\* an exercise of Chest that holds records.
InclineLeftOut ==
    /\ Listed /\ timeline_args = [muscle_group |-> "Chest", limit |-> 0]
    /\ "Incline Bench Press" \in DOMAIN records.exercises
    /\ \A k \in 1 .. Len(timeline) :
          timeline[k].type = "exercise" => timeline[k].exercise # "Incline Bench Press"

\* A timeline of Chest cut to its limit: two events of the later date, and
\* an event of the earlier date left out.
ChestCutToLimit ==
    /\ Listed /\ timeline_args = [muscle_group |-> "Chest", limit |-> 2]
    /\ Len(timeline) = 2 /\ timeline[1].type = "exercise"
    /\ \E event \in EventsOf(DOMAIN records.exercises) :
          ~Shown(event) /\ event.date < timeline[2].date

\* A call on a DataFrame has returned: update_from_dataframe or
\* calculate_intensity_metrics.
CallReturned == reg_pc \in {"ready", "measured"} /\ updates >= 1

\* C20: update_from_dataframe and calculate_intensity_metrics leave every
\* existing field of every row of the caller's dataset unchanged (each row's
\* 1RM and Volume after the call equal their values before it) and add no
\* fields to it.
C20_ReadOnly ==
    CallReturned =>
        /\ reg_df.columns = given_df.columns
        /\ Len(reg_df.rows) = Len(given_df.rows)
        /\ \A k \in 1 .. Len(given_df.rows) : reg_df.rows[k] = given_df.rows[k]

\* What the code gives: the update keeps the columns of an enriched dataset,
\* its Volume, and its 1RM below 37 reps; the metrics keep the fields they
\* find.
KeptBesides1RMAndNewColumns ==
    CallReturned =>
        /\ given_df.columns \subseteq reg_df.columns
        /\ Len(reg_df.rows) = Len(given_df.rows)
        /\ reg_pc = "ready" => reg_df.columns = given_df.columns
        /\ \A k \in 1 .. Len(given_df.rows) :
              /\ reg_df.rows[k].Volume = given_df.rows[k].Volume
              /\ reg_df.rows[k].Date = given_df.rows[k].Date
              /\ reg_df.rows[k].Weight = given_df.rows[k].Weight
              /\ reg_df.rows[k].Reps = given_df.rows[k].Reps
              /\ (given_df.rows[k].Reps < 37 \/ reg_pc = "measured")
                    => reg_df.rows[k].OneRM = given_df.rows[k].OneRM

\* update_from_dataframe has set the 1RM of a 37-rep row to 0.
OneRMOverwritten ==
    /\ reg_pc = "ready" /\ updates >= 1
    /\ \E k \in 1 .. Len(given_df.rows) :
          /\ given_df.rows[k].Reps = 37
          /\ GT(given_df.rows[k].OneRM, Q(0))
          /\ reg_df.rows[k].OneRM = Q(0)

\* calculate_intensity_metrics has added its two columns.
ColumnsAdded ==
    /\ reg_pc = "measured"
    /\ reg_df.columns \ given_df.columns = {"Percent of 1RM", "Rep Range"}
    /\ \E k \in 1 .. Len(reg_df.rows) :
          "RepRange" \in DOMAIN reg_df.rows[k] /\ "RepRange" \notin DOMAIN given_df.rows[k]

\* calculate_intensity_metrics has added 'Rep Range' alone: no 1RM is positive.
RepRangeAdded ==
    /\ reg_pc = "measured"
    /\ reg_df.columns \ given_df.columns = {"Rep Range"}

-----------------------------------------------------------------------------

(* parse_strong_csv                                                         *)

ParseDone == csv_pc = "done"

\* C21: when a required column is absent the ingestion fails with a
\* ValueError whose message names every missing required column, and with a
\* ValueError when the Date column cannot be parsed; in both cases no dataset
\* is returned; a non-numeric or missing Weight, Reps or RPE cell is no error
\* and becomes 0.
C21_FailsWhole ==
    ParseDone =>
        LET missing == RequiredColumns \ csv_file.columns
            bad_date == \E k \in 1 .. Len(csv_file.rows) : csv_file.rows[k].Date.kind = "text"
        IN  /\ missing # {} =>
                  /\ parsed.outcome = "ValueError"
                  /\ missing \subseteq Range(parsed.message[3])
            /\ (missing = {} /\ bad_date) => parsed.outcome = "ValueError"
            /\ parsed.outcome = "ValueError" => DOMAIN parsed = {"outcome", "message"}
            /\ (missing = {} /\ ~bad_date) =>
                  /\ parsed.outcome = "returned"
                  /\ Len(parsed.rows) = Len(csv_file.rows)
                  /\ \A k \in 1 .. Len(parsed.rows) :
                        /\ csv_file.rows[k].Weight.kind # "number" => parsed.rows[k].Weight = 0
                        /\ csv_file.rows[k].Reps.kind # "number" => parsed.rows[k].Reps = 0
                        /\ ("RPE" \in csv_file.columns /\ csv_file.rows[k].RPE.kind # "number")
                              => parsed.rows[k].RPE = 0
                        /\ csv_file.rows[k].Weight.kind = "number"
                              => parsed.rows[k].Weight = csv_file.rows[k].Weight.value

\* Two required columns are missing and the error names both.
TwoMissingNamed ==
    /\ ParseDone /\ parsed.outcome = "ValueError"
    /\ parsed.message[3] = <<"Date", "Reps">>

\* A file whose Date is no date raised, and a file with a text weight and an
\* empty RPE was returned with zeros.
DatesRaised ==
    /\ ParseDone /\ parsed.outcome = "ValueError"
    /\ parsed.message[2] = "Error parsing dates: "

TextWeightIsZero ==
    /\ ParseDone /\ parsed.outcome = "returned" /\ Len(parsed.rows) = 1
    /\ csv_file.rows[1].Weight.kind = "text" /\ parsed.rows[1].Weight = 0
    /\ "RPE" \in csv_file.columns /\ csv_file.rows[1].RPE.kind = "empty"
    /\ parsed.rows[1].RPE = 0

-----------------------------------------------------------------------------

(* preprocess_data: Set Order; filter_data_by_criteria: workout types       *)

Preprocessed == wk_pc \in {"preprocessed", "filtered"}

\* The rows of wk_df that share Date, Workout Name and Exercise Name with row k.
GroupOfRow(k) ==
    {j \in 1 .. Len(wk_df) : /\ wk_df[j].Date = wk_df[k].Date
                             /\ wk_df[j].WorkoutName = wk_df[k].WorkoutName
                             /\ wk_df[j].ExerciseName = wk_df[k].ExerciseName}

\* C22: after preprocess_data, for every input, the Set Order values within
\* each (Date, Workout Name, Exercise Name) group are exactly 1, 2, ..., n in
\* row order.
C22_SetOrderCounter ==
    Preprocessed =>
        \A k \in 1 .. Len(wk_df) :
            wk_df[k].SetOrder = Cardinality({j \in GroupOfRow(k) : j <= k})

\* What the code gives: the counter per group unless the input was the
\* counter per (Date, Exercise Name), which is kept as it is.
SetOrderCounterUnlessSequentialPerDate ==
    Preprocessed =>
        \/ \A k \in 1 .. Len(wk_df) :
              wk_df[k].SetOrder = Cardinality({j \in GroupOfRow(k) : j <= k})
        \/ \A k \in 1 .. Len(wk_df) :
              wk_df[k].SetOrder =
                  Cardinality({j \in 1 .. k : /\ wk_df[j].Date = wk_df[k].Date
                                              /\ wk_df[j].ExerciseName = wk_df[k].ExerciseName})

\* Two workouts of one day with one set of Bench Press each, numbered 1 and 2
\* in the file, keep their numbers: the second workout's only set is set 2.
SequentialAcrossWorkoutsKept ==
    /\ Preprocessed /\ Len(wk_df) = 2
    /\ wk_df[1].Date = wk_df[2].Date /\ wk_df[1].WorkoutName # wk_df[2].WorkoutName
    /\ wk_df[1].ExerciseName = wk_df[2].ExerciseName
    /\ wk_df[1].SetOrder = 1 /\ wk_df[2].SetOrder = 2

Filtered == wk_pc = "filtered"

\* The type segment_workouts_by_type computes for the workout of a row.
TypeOfWorkoutOf(row) == WorkoutType(RowsOfWorkout(wk_df, row.Date, row.WorkoutName))

\* C27: filter_data_by_criteria with a workout_types filter keeps exactly
\* the rows of the workouts whose type is in the filter; the key that
\* segment_workouts_by_type builds for a workout equals the workout_id that
\* preprocess_data assigned to its rows, for every workout name.
C27_FilterByType ==
    Filtered =>
        /\ \A k \in 1 .. Len(wk_df) :
              wk_df[k].workout_id = SegmentWorkoutId(wk_df[k].Date, wk_df[k].WorkoutName)
        /\ LET of_type(r) == TypeOfWorkoutOf(r) \in type_filter
           IN  filtered_df = SelectSeq(wk_df, of_type)

\* What the code gives: the rows of the workouts of a type in the filter
\* whose name holds no space.
FilterByTypeWithoutSpaces ==
    Filtered =>
        LET kept(r) == /\ TypeOfWorkoutOf(r) \in type_filter
                       /\ " " \notin Range(WorkoutNameChars[r.WorkoutName])
        IN  filtered_df = SelectSeq(wk_df, kept)

\* A workout named "Leg Day" of type 'Leg Day' is asked for and nothing is kept.
LegDayDropped ==
    /\ Filtered /\ type_filter = {"Leg Day"} /\ Len(wk_df) = 1
    /\ wk_df[1].WorkoutName = "Leg Day" /\ wk_df[1].ExerciseName = "Squat"
    /\ workout_types[SegmentWorkoutId(wk_df[1].Date, "Leg Day")] = "Leg Day"
    /\ filtered_df = <<>>

\* A workout named "Push" of type 'Chest Focused' is asked for and kept.
PushKept ==
    /\ Filtered /\ type_filter = {"Chest Focused"} /\ Len(wk_df) = 1
    /\ wk_df[1].WorkoutName = "Push" /\ filtered_df = wk_df

-----------------------------------------------------------------------------

(* longest streak                                                           *)

\* The days a .. b are all workout dates.
IsStreak(a, b) == \A d \in a .. b : d \in streak_dates

\* The length of the longest run of calendar-consecutive workout dates.
LongestRun ==
    CHOOSE n \in 1 .. MaxDay + 1 :
        /\ \E a \in streak_dates : IsStreak(a, a + n - 1)
        /\ \A a \in streak_dates : ~IsStreak(a, a + n)

\* C23: for every non-empty dataset the longest_streak of
\* analyze_workout_patterns, and of its copy in the workout-patterns page, is
\* the length of the longest run of calendar-consecutive distinct workout
\* dates, which is at least 1; all dates isolated gives 1.
C23_LongestStreak ==
    \A fn \in DOMAIN longest_streak :
        longest_streak[fn] = LongestRun /\ longest_streak[fn] >= 1

\* What the code gives: the page answers the longest run; the function of
\* old_monolith answers 0 where no two dates are consecutive.
LongestStreakZeroWhenIsolated ==
    /\ "render" \in DOMAIN longest_streak => longest_streak["render"] = LongestRun
    /\ "analyze_workout_patterns" \in DOMAIN longest_streak =>
          longest_streak["analyze_workout_patterns"] = IF LongestRun = 1 THEN 0 ELSE LongestRun

\* Dates 1, 3 and 5: the page answers 1 and analyze_workout_patterns 0.
IsolatedDatesDiffer ==
    /\ streak_pc = "both" /\ streak_dates = {1, 3, 5}
    /\ longest_streak["render"] = 1
    /\ longest_streak["analyze_workout_patterns"] = 0

\* Dates 1, 2, 3 and 5, 6: both answer 3.
RunOfThree ==
    /\ streak_pc = "both" /\ streak_dates = {1, 2, 3, 5, 6}
    /\ longest_streak["render"] = 3
    /\ longest_streak["analyze_workout_patterns"] = 3

-----------------------------------------------------------------------------

(* identify_personal_records: rows of one date                              *)

\* The position of row i in the scan of its exercise.
ScanPosition(i) ==
    CHOOSE k \in 1 .. Len(sorted_idx[df[i].ExerciseName]) :
        sorted_idx[df[i].ExerciseName][k] = i

\* Rows a, b are the two rows of their exercise on their date, a before b in
\* the input.
SameDatePair(a, b) ==
    /\ a < b
    /\ df[a].ExerciseName = df[b].ExerciseName /\ df[a].Date = df[b].Date
    /\ \A i \in 1 .. Len(df) :
          (df[i].ExerciseName = df[a].ExerciseName /\ df[i].Date = df[a].Date) => i \in {a, b}

\* Row a is heavier than 0 and than every row of its exercise of an earlier date.
ExceedsEarlierDates(a) ==
    /\ df[a].Weight > 0
    /\ \A i \in 1 .. Len(df) :
          (df[i].ExerciseName = df[a].ExerciseName /\ df[i].Date < df[a].Date)
              => df[i].Weight < df[a].Weight

\* C24: rows of the same exercise that share a date are scanned in their
\* input order; of two such rows a then b, with a above all rows of earlier
\* dates, both are flagged when value(a) < value(b) and only a is flagged when
\* value(a) > value(b).
C24_StableScan ==
    Flagged =>
        \A a, b \in 1 .. Len(df) :
            SameDatePair(a, b) =>
                /\ ScanPosition(a) < ScanPosition(b)
                /\ (ExceedsEarlierDates(a) /\ df[a].Weight < df[b].Weight)
                      => (df[a].IsWeightPR /\ df[b].IsWeightPR)
                /\ (ExceedsEarlierDates(a) /\ df[a].Weight > df[b].Weight)
                      => (df[a].IsWeightPR /\ ~df[b].IsWeightPR)

\* What the code gives whatever order the sort leaves the two rows in: the
\* heavier of the two is flagged, and the lighter one is flagged exactly when
\* it is scanned first.
HeavierOfPairFlagged ==
    Flagged =>
        \A a, b \in 1 .. Len(df) :
            (SameDatePair(a, b) /\ ExceedsEarlierDates(a) /\ ExceedsEarlierDates(b)
                /\ df[a].Weight # df[b].Weight) =>
                LET heavy == IF df[a].Weight > df[b].Weight THEN a ELSE b
                    light == IF heavy = a THEN b ELSE a
                IN  /\ df[heavy].IsWeightPR
                    /\ df[light].IsWeightPR <=> ScanPosition(light) < ScanPosition(heavy)

\* The sort has put the lighter second row of a date before the first: 65 kg
\* then 60 kg in the input, both flagged.
SameDateScannedInReverse ==
    /\ pc = "flagged" /\ Len(df) = 2
    /\ SameDatePair(1, 2) /\ df[1].Weight = 65 /\ df[2].Weight = 60
    /\ ScanPosition(2) < ScanPosition(1)
    /\ df[1].IsWeightPR /\ df[2].IsWeightPR

\* The sort has kept the input order of the same two rows: only the first is flagged.
SameDateScannedInOrder ==
    /\ pc = "flagged" /\ Len(df) = 2
    /\ SameDatePair(1, 2) /\ df[1].Weight = 65 /\ df[2].Weight = 60
    /\ ScanPosition(1) < ScanPosition(2)
    /\ df[1].IsWeightPR /\ ~df[2].IsWeightPR

-----------------------------------------------------------------------------

(* _calculate_exercise_improvements                                         *)

ImprovementsReturned == imp_pc = "returned"

\* The rows of imp_df of the earliest and of the latest date.
EarliestRow == CHOOSE r \in Range(imp_df.rows) : \A s \in Range(imp_df.rows) : r.Date <= s.Date
LatestRow == CHOOSE r \in Range(imp_df.rows) : \A s \in Range(imp_df.rows) : r.Date >= s.Date

\* C25: for every exercise with at least two rows the overall improvement is
\* the average of the weight improvement and the 1RM improvement, where the
\* 1RM improvement is (latest 1RM - earliest 1RM) / earliest 1RM * 100
\* whenever the dataset has a 1RM column and the earliest 1RM is above 0.
C25_AverageOfWeightAnd1RM ==
    (ImprovementsReturned /\ Len(imp_df.rows) >= 2) =>
        /\ Len(exercise_improvements) = 1
        /\ LET entry == exercise_improvements[1]
           IN  /\ EQ(RatMul(entry.improvement, Q(2)),
                     RatAdd(entry.weight_improvement, entry.orm_improvement))
               /\ ("1RM" \in imp_df.columns /\ GT(Imp1RM(EarliestRow), Q(0))) =>
                     EQ(entry.orm_improvement,
                        GainPercent(Imp1RM(EarliestRow), Imp1RM(LatestRow)))

\* What the code gives: a 1RM improvement of 0 and half the weight improvement.
OrmImprovementZero ==
    (ImprovementsReturned /\ Len(imp_df.rows) >= 2) =>
        /\ Len(exercise_improvements) = 1
        /\ EQ(exercise_improvements[1].orm_improvement, Q(0))
        /\ EQ(RatMul(exercise_improvements[1].improvement, Q(2)),
              exercise_improvements[1].weight_improvement)
        /\ EarliestRow.Set[1] > 0 =>
              EQ(exercise_improvements[1].weight_improvement,
                 GainPercent(Q(EarliestRow.Set[1]), Q(LatestRow.Set[1])))

\* 60 kg x 5 then 60 kg x 8 with a 1RM column: the 1RM rose and the
\* improvement reported is 0.
OrmRiseUnreported ==
    /\ ImprovementsReturned /\ "1RM" \in imp_df.columns /\ Len(imp_df.rows) = 2
    /\ EarliestRow.Set = <<60, 5>> /\ LatestRow.Set = <<60, 8>>
    /\ EQ(exercise_improvements[1].improvement, Q(0))

-----------------------------------------------------------------------------

(* get_all_muscle_groups against the classifier                             *)

\* C26: every value map_exercise_to_muscle_group returns is a member of the
\* list get_all_muscle_groups() returns.
C26_ListedGroup ==
    Classified => muscle_group \in Range(get_all_muscle_groups)

\* What the code gives: the value is listed, or it is "Compound", the group
\* of eighteen curated names and the key of no pattern list.
ListedOrCompound ==
    Classified => muscle_group \in Range(get_all_muscle_groups) \cup {"Compound"}

\* The listing is the eight pattern groups and "Other".
ListingOfNine ==
    get_all_muscle_groups =
        <<"Chest", "Back", "Legs", "Shoulders", "Arms", "Core", "Cardio", "Olympic", "Other">>

\* "clean and press" is classified as "Compound".
CompoundReturned ==
    /\ Classified /\ exercise_name = Str(Parts[4])
    /\ muscle_group = "Compound"

-----------------------------------------------------------------------------

(* detect_plateaus against identify_plateaus                                *)

BothReturned == ppc = "returned" /\ detect_pc = "returned"

\* A period of detect_plateaus in the fields of identify_plateaus.
AsIdentified(period) ==
    [start_date |-> period.start_date, end_date |-> period.end_date,
     duration |-> period.workouts, weight |-> period.value]

\* C28: for every history and every window >= 2 the two detectors report the
\* same list of periods, with equal start date, end date, weight and workout
\* count (workouts = duration).
C28_DetectorsAgree ==
    BothReturned =>
        /\ Len(detected) = Len(plateaus)
        /\ \A k \in 1 .. Len(detected) : AsIdentified(detected[k]) = plateaus[k]

\* The periods of identify_plateaus longer than the window.
LongerThanWindow(period) == period.duration > window

\* What the code gives: detect_plateaus counts the dates after the first of a
\* period, so it reports the periods of identify_plateaus of more than
\* `window` dates, each with one workout fewer.
DetectCountsOneFewer ==
    BothReturned =>
        LET longer == SelectSeq(plateaus, LongerThanWindow)
        IN  /\ Len(detected) = Len(longer)
            /\ \A k \in 1 .. Len(detected) :
                   AsIdentified(detected[k]) =
                       [longer[k] EXCEPT !.duration = longer[k].duration - 1]

\* 100 kg on three dates, window 3: a period for one detector, none for the other.
PeriodOfWindowMissed ==
    /\ BothReturned /\ window = 3 /\ history = <<<<100>>, <<100>>, <<100>>>>
    /\ Len(plateaus) = 1 /\ plateaus[1].duration = 3
    /\ detected = <<>>

\* 100 kg on four dates, window 3: the same dates, 4 workouts and 3.
PeriodCountedOneFewer ==
    /\ BothReturned /\ window = 3 /\ Len(history) = 4
    /\ Len(plateaus) = 1 /\ Len(detected) = 1
    /\ plateaus[1].duration = 4 /\ detected[1].workouts = 3
    /\ plateaus[1].start_date = detected[1].start_date
    /\ plateaus[1].end_date = detected[1].end_date

-----------------------------------------------------------------------------

(* The 1RM formulas against calculate_1rm                                   *)

AllCalled == calls = 1 /\ \A f \in Formulas : inline_1rm[f] # NotCalled

\* The formula returned the value calculate_1rm returned.
Agrees(f) ==
    /\ inline_1rm[f].state = "returned"
    /\ Denom(inline_1rm[f].value) # 0
    /\ EQ(inline_1rm[f].value, one_rm)

\* C29: for all integer reps >= 0 and weight >= 0 the formula of
\* RecordsRegistry.update_from_dataframe, the formula of app.main's
\* preprocess_data and old_monolith's calculate_1rm return the value of
\* data.processor.calculate_1rm (0 for reps = 0, weight * 1.1 for
\* reps >= 37); none of them raises or returns a negative value.
C29_FormulasAgree ==
    AllCalled =>
        /\ reps = 0 => one_rm = Q(0)
        /\ reps >= 37 => EQ(one_rm, Rat(weight * 11, 10))
        /\ \A f \in Formulas :
              /\ Agrees(f)
              /\ GE(inline_1rm[f].value, Q(0))

\* What the code gives: the four agree for 1 to 36 reps and for weight 0.
AgreeWithinBrzycki ==
    (AllCalled /\ (weight = 0 \/ reps \in 1 .. 36)) => \A f \in Formulas : Agrees(f)

\* calculate_1rm is as the claim has it; the registry and old_monolith agree
\* with it at 0 reps, app.main does not where the weight is above 0.
AtZeroReps ==
    (AllCalled /\ reps = 0) =>
        /\ one_rm = Q(0)
        /\ Agrees("records_registry") /\ Agrees("old_monolith")
        /\ inline_1rm["app_main"] =
              Returns(IF weight > 0 THEN Rat(weight * 36, 37) ELSE Q(0))

\* From 37 reps on, where calculate_1rm returns weight * 1.1, the registry and
\* app.main return 0; old_monolith raises or returns inf at 37 and a negative
\* value past it where the weight is above 0.
PastBrzycki ==
    (AllCalled /\ reps >= 37) =>
        /\ EQ(one_rm, Rat(weight * 11, 10))
        /\ inline_1rm["records_registry"] = Returns(Q(0))
        /\ inline_1rm["app_main"] = Returns(Q(0))
        /\ (weight > 0 /\ reps = 37) =>
              inline_1rm["old_monolith"] \in {Raises, Returns(Infinity)}
        /\ (weight > 0 /\ reps > 37) =>
              /\ inline_1rm["old_monolith"].state = "returned"
              /\ GT(Q(0), inline_1rm["old_monolith"].value)

\* 2 kg x 38: 2.2 by calculate_1rm, 0 by the registry, -72 by old_monolith.
NegativeReturned ==
    /\ AllCalled /\ weight = 2 /\ reps = 38
    /\ one_rm = <<11, 5>>
    /\ inline_1rm["records_registry"] = Returns(Q(0))
    /\ inline_1rm["old_monolith"] = Returns(Q(-72))

\* 2 kg x 37: old_monolith raised.
MonolithRaised ==
    AllCalled /\ weight = 2 /\ reps = 37 /\ inline_1rm["old_monolith"] = Raises

\* 2 kg x 0: 72/37 by app.main.
AppMainAtZeroReps ==
    AllCalled /\ weight = 2 /\ reps = 0 /\ inline_1rm["app_main"] = Returns(<<72, 37>>)

\* 2 kg x 5: 2.25 by all four.
FiveRepsAgreed ==
    /\ AllCalled /\ weight = 2 /\ reps = 5 /\ one_rm = <<9, 4>>
    /\ \A f \in Formulas : Agrees(f)

-----------------------------------------------------------------------------

(* calculate_workout_balance on degenerate input                            *)

EmptyDataset == \A g \in MuscleGroups : balance_df[g] = <<>>

\* C30: when the dataset is empty or its push volume is 0 no Push/Pull
\* Imbalance recommendation is emitted; for an empty dataset the
\* recommendations list is empty and is_balanced is true; at most one of the
\* push-dominant and pull-dominant recommendations is emitted.
C30_NeutralOnDegenerate ==
    Balanced =>
        /\ (EmptyDataset \/ EQ(PushVolume, Q(0))) => ~Recommended("Push/Pull Imbalance")
        /\ EmptyDataset => (recommendations = <<>> /\ is_balanced)
        /\ ~(Recommended("Push/Pull Imbalance") /\ Recommended("Pull/Push Imbalance"))

\* What the code gives: a pull volume of 0 makes the ratio inf, which is
\* above 1.3 whatever the push volume; the two recommendations exclude each
\* other; the empty dataset gets two recommendations of severity 'high'.
InfiniteRatioPushDominant ==
    Balanced =>
        /\ EQ(PullVolume, Q(0)) =>
              /\ push_pull_ratio = Infinity
              /\ Recommended("Push/Pull Imbalance")
              /\ SeverityOf("Push/Pull Imbalance") = "high"
        /\ (GT(PullVolume, Q(0)) /\ EQ(PushVolume, Q(0))) =>
              ~Recommended("Push/Pull Imbalance")
        /\ ~(Recommended("Push/Pull Imbalance") /\ Recommended("Pull/Push Imbalance"))
        /\ EmptyDataset =>
              /\ recommendations =
                    <<[issue |-> "Push/Pull Imbalance", severity |-> "high"],
                      [issue |-> "Upper/Lower Imbalance", severity |-> "high"]>>
              /\ ~is_balanced

\* The empty dataset is reported as not balanced.
EmptyDatasetUnbalanced ==
    Balanced /\ EmptyDataset /\ Len(recommendations) = 2 /\ ~is_balanced

\* Legs only: push volume 0 and a push-dominant recommendation.
LegsOnlyPushDominant ==
    /\ Balanced /\ ~EmptyDataset /\ EQ(PushVolume, Q(0)) /\ GroupVolume("Legs") > 0
    /\ Recommended("Push/Pull Imbalance")

\* Back only: push volume 0 and the pull-dominant recommendation alone.
BackOnlyPullDominant ==
    /\ Balanced /\ EQ(PushVolume, Q(0)) /\ GT(PullVolume, Q(0))
    /\ Recommended("Pull/Push Imbalance") /\ ~Recommended("Push/Pull Imbalance")

=============================================================================
